---- MODULE Spec2Model ----
(***************************************************************************)
(* NiceMPI: lifetime of native communicators behind MPIcommunicatorHandle  *)
(* (owning and proxy variants), the Communicator factory functions, the    *)
(* communicator comparisons, handleError / NiceMPIexception and the        *)
(* initialization guards (Initializer, MPI_RAII).                          *)
(*                                                                         *)
(* The native library is modelled by its communicator table: every native  *)
(* communicator has a state (unalloc / live / freed) and a process group.  *)
(* MPI_Comm_dup allocates a fresh entry with the same group, MPI_Comm_free *)
(* marks an entry freed, MPI_Comm_compare compares identity and groups.    *)
(*                                                                         *)
(* The communication functions of Communicator run on the ranks of the     *)
(* world communicator: split (SpecSplit), sendAndBlock / receiveAndBlock   *)
(* (SpecBlocking), the collectives (SpecCollective) and asyncSend /        *)
(* asyncReceive with their request objects (SpecAsync). Objects travel as  *)
(* SizeofType bytes each; a collective returns at a rank once every rank   *)
(* of the communicator has entered it.                                     *)
(*                                                                         *)
(* Further specifications: the handles together with Communicator::split   *)
(* (SpecWithSplit), createDefaultDisplacements on its own                  *)
(* (SpecDisplacements), the varying collectives with displacements of the  *)
(* caller's choice, where a native call may leave its buffers              *)
(* (SpecExplicit), and the Communicator of the single header               *)
(* src/include/NiceMPI.h, which holds its MPI_Comm itself                  *)
(* (SpecSingleHeader).                                                     *)
(***************************************************************************)
EXTENDS Integers, Sequences, FiniteSets, TLC

\* ---------------------------------------------------------------- bounds
MaxHandles == 2
MaxComm == 4
NumProcs == 3
MaxErr == 60
NativeErrorCode == 15
SizeofType == 2
MaxCount == 2
MaxMoves == 1

\* ------------------------------------------------------ native constants
MPI_SUCCESS == 0
MPI_COMM_WORLD == 1
MPI_COMM_SELF == 2
MPI_COMM_NULL == MPI_COMM_WORLD - 1
MPI_IDENT == 0
MPI_CONGRUENT == 1
MPI_SIMILAR == MPI_CONGRUENT + 1
MPI_UNEQUAL == MPI_SIMILAR + 1
INT_MAX == (2 ^ 30 - 1) * 2 + 1

VARIABLES
    comms,        \* native communicator table: id -> [state, group]
    freeCalls,    \* id -> number of MPI_Comm_free calls issued on that communicator
    handles,      \* client MPIcommunicatorHandle / Communicator objects
    tls,          \* the thread_local proxies behind mpiWorld() and mpiSelf()
    last,         \* the last operation: what it was called on and what it did
    terminated,   \* "no", "terminate" (std::terminate) or "crash" (null dereference)
    guard,        \* the initialization guard object, with the native result codes it saw
    nativeLog,    \* MPI_Init / MPI_Finalize calls issued so far, in order
    errIn,        \* argument of a direct handleError call
    thrown,       \* outcome of the direct handleError call
    prog,         \* what the ranks of MPI_COMM_WORLD agree on in a collective call
    call,         \* rank -> the Communicator / request method the rank is inside of
    ret,          \* rank -> what the rank's last completed call returned
    contrib,      \* rank -> the native collective calls the rank has entered, in order
    sends,        \* native send operations posted so far, in order
    recvs         \* native receive operations posted so far, in order

handleVars == <<comms, freeCalls, handles, tls, last, terminated, guard, nativeLog,
                errIn, thrown>>

procVars == <<prog, call, ret, contrib, sends, recvs>>

vars == <<comms, freeCalls, handles, tls, last, terminated, guard, nativeLog,
          errIn, thrown, prog, call, ret, contrib, sends, recvs>>

HandleIds == 1..MaxHandles
CommIds == 1..MaxComm
\* what a native call on communicators returns: success, or an error code
ErrCodes == {MPI_SUCCESS, NativeErrorCode}
GuardKinds == {"Initializer", "MPI_RAII"}

\* ------------------------------------------- NiceMPIexception / handleError
Digit(d) ==
    CASE d = 0 -> "0" [] d = 1 -> "1" [] d = 2 -> "2" [] d = 3 -> "3" [] d = 4 -> "4"
      [] d = 5 -> "5" [] d = 6 -> "6" [] d = 7 -> "7" [] d = 8 -> "8" [] d = 9 -> "9"

RECURSIVE DigitsOf(_)
DigitsOf(n) ==
    IF n < 10 THEN <<Digit(n)>> ELSE Append(DigitsOf(n \div 10), Digit(n % 10))

\* the digits of the magnitude of a negative n, computed without negating n
\* (the magnitude of INT_MIN is no int)
RECURSIVE MagnitudeDigits(_)
MagnitudeDigits(n) ==
    LET d == (10 - (n % 10)) % 10
        q == (n + d) \div 10
    IN  IF q = 0 THEN <<Digit(d)>> ELSE Append(MagnitudeDigits(q), Digit(d))

\* std::to_string(int): decimal digits, with a leading minus sign for negatives
to_string(n) ==
    IF n < 0 THEN <<"-">> \o MagnitudeDigits(n) ELSE DigitsOf(n)

ErrorPrefix == <<"E","r","r","o","r"," ","c","o","d","e"," ">>
ErrorSuffix == <<" ","i","n"," ","M","P","I",".">>

NoException == [thrown |-> FALSE, error |-> MPI_SUCCESS, what |-> <<>>]

\* NiceMPIexception(int error): runtime_error("Error code " + to_string(error) + " in MPI."), error(error)
NiceMPIexception(error) ==
    [thrown |-> TRUE, error |-> error,
     what |-> ErrorPrefix \o to_string(error) \o ErrorSuffix]

\* handleError(error): throws iff error != MPI_SUCCESS
handleErrorBad(error) ==
    IF error > MPI_SUCCESS THEN NiceMPIexception(error) ELSE NoException

handleError(error) ==
    IF error # MPI_SUCCESS THEN NiceMPIexception(error) ELSE NoException

\* ------------------------------------------------------- native library
WorldGroup(n) == [i \in 1..n |-> i - 1]
SelfGroup == <<0>>

FreshIds == {c \in CommIds : comms[c].state = "unalloc"}
IsLive(c) == c \in CommIds /\ comms[c].state = "live"

MinOf(S) == CHOOSE x \in S : \A y \in S : x <= y

\* MPI_Comm_dup(c, &out): the set of possible results.  It may fail with any
\* error code; it succeeds only on a live communicator, and only while the
\* table has a free entry.  A success yields a fresh communicator.
MPI_Comm_dup(c) ==
    {[err |-> e, out |-> MPI_COMM_NULL] : e \in ErrCodes \ {MPI_SUCCESS}}
    \cup (IF IsLive(c) /\ FreshIds # {}
          THEN {[err |-> MPI_SUCCESS, out |-> MinOf(FreshIds)]}
          ELSE {})

\* the communicator table after the duplication d of c
CommsAfterDup(table, c, d) ==
    IF d.err = MPI_SUCCESS /\ d.out \in CommIds
    THEN [table EXCEPT ![d.out] = [state |-> "live", group |-> table[c].group]]
    ELSE table

\* MPI_Comm_free(&c): possible error codes
MPI_Comm_free(c) ==
    IF IsLive(c) THEN ErrCodes ELSE ErrCodes \ {MPI_SUCCESS}

CommsAfterFree(table, c, e) ==
    IF e = MPI_SUCCESS THEN [table EXCEPT ![c] = [state |-> "freed", group |-> <<>>]] ELSE table

\* MPI_Comm_compare(a, b, &result): the values result can hold after the call.
\* On two live communicators it is set to the comparison of identity and groups;
\* on a freed or null communicator the call fails and result, which the callers
\* never initialize, holds anything.
CompareResults == {MPI_IDENT, MPI_CONGRUENT, MPI_SIMILAR, MPI_UNEQUAL}

MPI_Comm_compare(a, b) ==
    IF IsLive(a) /\ IsLive(b)
    THEN {IF a = b THEN MPI_IDENT
          ELSE IF comms[a].group = comms[b].group THEN MPI_CONGRUENT
          ELSE MPI_UNEQUAL}
    ELSE CompareResults

\* ------------------------------------------ MPIcommunicatorHandleImpl
NullImpl == [kind |-> "null", comm |-> MPI_COMM_NULL]
Dead == [alive |-> FALSE, impl |-> NullImpl]
Alive(impl) == [alive |-> TRUE, impl |-> impl]

\* ProxyCommunicator(MPI_Comm rhs): mpiCommunicator(rhs)
ProxyCommunicatorBad(rhs) == [kind |-> "proxy", comm |-> MPI_COMM_WORLD]

ProxyCommunicator(rhs) == [kind |-> "proxy", comm |-> rhs]

\* OwnedCommunicator(MPI_Comm rhs): handleError(MPI_Comm_dup(rhs, &mpiCommunicator)).
\* One outcome per result of the native duplication.
OwnedCommunicatorBad(rhs) ==
    {[impl |-> [kind |-> "owned", comm |-> rhs], exc |-> NoException,
      dups |-> 0, dup |-> [err |-> MPI_SUCCESS, out |-> MPI_COMM_NULL]]}

OwnedCommunicator(rhs) ==
    {[impl |-> [kind |-> "owned", comm |-> d.out], exc |-> handleError(d.err),
      dups |-> 1, dup |-> d] : d \in MPI_Comm_dup(rhs)}

\* ProxyCommunicator::deepCopy(): new OwnedCommunicator(mpiCommunicator)
ProxyDeepCopyBad(impl) ==
    {[impl |-> ProxyCommunicator(impl.comm), exc |-> NoException,
      dups |-> 0, dup |-> [err |-> MPI_SUCCESS, out |-> MPI_COMM_NULL]]}

ProxyDeepCopy(impl) == OwnedCommunicator(impl.comm)

\* OwnedCommunicator::deepCopy(): new OwnedCommunicator(mpiCommunicator)
OwnedDeepCopyBad(impl) ==
    {[impl |-> impl, exc |-> NoException,
      dups |-> 0, dup |-> [err |-> MPI_SUCCESS, out |-> MPI_COMM_NULL]]}

OwnedDeepCopy(impl) == OwnedCommunicator(impl.comm)

\* rhs.impl->deepCopy(), a virtual call
deepCopy(impl) ==
    IF impl.kind = "proxy" THEN ProxyDeepCopy(impl) ELSE OwnedDeepCopy(impl)

\* ~OwnedCommunicator() calls MPI_Comm_free; ~ProxyCommunicator() does nothing
DestructorFreesBad(impl) == impl.kind \in {"owned", "proxy"}

DestructorFreesNever(impl) == FALSE

DestructorFrees(impl) == impl.kind = "owned"

\* impl->get()
get(h) == h.impl.comm

\* impl = std::move(rhs.impl): the target takes the pointer, the source is left null
MovedBad(impl) == [to |-> impl, from |-> impl]

Moved(impl) == [to |-> impl, from |-> NullImpl]

\* references a client can name: its own objects and the two thread_local proxies
WorldRef == MaxHandles + 1
SelfRef == MaxHandles + 2
Refs == HandleIds \cup {WorldRef, SelfRef}
Obj(r) ==
    IF r \in HandleIds THEN handles[r]
    ELSE IF r = WorldRef THEN tls.world ELSE tls.self

\* operator-> on a null unique_ptr: SIGSEGV, or abort when the library asserts
NullDereference == {"crash", "abort"}

\* a new client object takes the first unused name
NewObject(h) == ~handles[h].alive /\ \A k \in HandleIds : k < h => handles[k].alive

NoOp ==
    [op |-> "none", dst |-> 0, src |-> 0, arg |-> MPI_COMM_NULL, exc |-> NoException,
     dups |-> 0, freed |-> <<>>, srcWas |-> NullImpl, dstWas |-> NullImpl]

\* the record of an operation called on dst with source src, with both
\* implementations as they were when it was called
Called(op, dst, src) ==
    [NoOp EXCEPT !.op = op, !.dst = dst, !.src = src,
                 !.srcWas = IF src \in Refs THEN Obj(src).impl ELSE NullImpl,
                 !.dstWas = IF dst \in Refs THEN Obj(dst).impl ELSE NullImpl]

\* the client calls an operation when the program has not been terminated and
\* it is done with the result of its previous call
Running == terminated = "no" /\ last.op = "none"

\* ------------------------------------------------------------------ Init
InitComms ==
    [c \in CommIds |->
        IF c = MPI_COMM_WORLD THEN [state |-> "live", group |-> WorldGroup(NumProcs)]
        ELSE IF c = MPI_COMM_SELF THEN [state |-> "live", group |-> SelfGroup]
        ELSE [state |-> "unalloc", group |-> <<>>]]

InitCommon ==
    /\ comms = InitComms
    /\ freeCalls = [c \in CommIds |-> 0]
    /\ handles = [h \in HandleIds |-> Dead]
    /\ tls = [world |-> Dead, self |-> Dead]
    /\ last = NoOp
    /\ terminated = "no"
    /\ thrown = [called |-> FALSE, exc |-> NoException]

\* the client operations start once a guard has initialized the library
InitLibrary ==
    /\ InitCommon
    /\ guard = [kind |-> "Initializer", state |-> "alive", exc |-> NoException,
                init |-> MPI_SUCCESS, fin |-> MPI_SUCCESS]
    /\ nativeLog = <<"MPI_Init">>
    /\ errIn = MPI_SUCCESS

\* the processes of MPI_COMM_WORLD, by rank; none of them is inside a call
Ranks == 0..(NumProcs - 1)

Idle == [op |-> "none"]

NoResult == [done |-> FALSE]

InitProcesses ==
    /\ call = [p \in Ranks |-> Idle]
    /\ ret = [p \in Ranks |-> NoResult]
    /\ contrib = [p \in Ranks |-> <<>>]
    /\ sends = <<>>
    /\ recvs = <<>>

\* no collective program: the ranks call what they like
NoProgram == [op |-> "none"]

Init == InitLibrary /\ prog = NoProgram /\ InitProcesses

\* ----------------------------------------------- initialization guards
\* ~Initializer() ignores the result of MPI_Finalize; ~MPI_RAII() terminates on an error
GuardDestructorTerminatesBad(kind, error) == FALSE

GuardDestructorTerminates(kind, error) ==
    kind = "MPI_RAII" /\ error # MPI_SUCCESS

\* Initializer(argc, argv) / MPI_RAII(argc, argv): handleError(MPI_Init(&argc, &argv))
GuardConstruct(e) ==
    /\ terminated = "no"
    /\ guard.state = "none"
    /\ nativeLog' = Append(nativeLog, "MPI_Init")
    /\ guard' = [guard EXCEPT !.init = e, !.exc = handleError(e),
                              !.state = IF handleError(e).thrown THEN "failed" ELSE "alive"]
    /\ UNCHANGED <<comms, freeCalls, handles, tls, last, terminated, errIn, thrown>>
    /\ UNCHANGED procVars

\* ~Initializer() / ~MPI_RAII(): MPI_Finalize()
GuardDestroy(e) ==
    /\ terminated = "no"
    /\ guard.state = "alive"
    /\ nativeLog' = Append(nativeLog, "MPI_Finalize")
    /\ guard' = [guard EXCEPT !.state = "destroyed", !.fin = e]
    /\ terminated' = IF GuardDestructorTerminates(guard.kind, e) THEN "terminate" ELSE "no"
    /\ UNCHANGED <<comms, freeCalls, handles, tls, last, errIn, thrown>>
    /\ UNCHANGED procVars

\* ------------------------------------------------- handle construction
\* MPIcommunicatorHandle(MPI_Comm) / Communicator(MPI_Comm): impl(new OwnedCommunicator(c))
ConstructOwned(h, c) ==
    /\ Running
    /\ NewObject(h)
    /\ IsLive(c)
    /\ \E o \in OwnedCommunicator(c) :
        /\ handles' = IF o.exc.thrown THEN handles ELSE [handles EXCEPT ![h] = Alive(o.impl)]
        /\ comms' = CommsAfterDup(comms, c, o.dup)
        /\ last' = [Called("ConstructOwned", h, 0) EXCEPT !.arg = c,
                                !.exc = o.exc, !.dups = o.dups]
    /\ UNCHANGED <<freeCalls, tls, terminated, guard, nativeLog, errIn, thrown>>
    /\ UNCHANGED procVars

\* MPIcommunicatorHandle(MPI_Comm*) / Communicator(MPI_Comm*): impl(new ProxyCommunicator(*c))
HandleFromPointer(c) == Alive(ProxyCommunicator(c))

ConstructProxy(h, c) ==
    /\ Running
    /\ NewObject(h)
    /\ IsLive(c)
    /\ handles' = [handles EXCEPT ![h] = HandleFromPointer(c)]
    /\ last' = [Called("ConstructProxy", h, 0) EXCEPT !.arg = c]
    /\ UNCHANGED <<comms, freeCalls, tls, terminated, guard, nativeLog, errIn, thrown>>
    /\ UNCHANGED procVars

\* createProxy(c): return Communicator{&mpiCommunicator}
createProxy(h, c) ==
    /\ Running
    /\ NewObject(h)
    /\ IsLive(c)
    /\ handles' = [handles EXCEPT ![h] = HandleFromPointer(c)]
    /\ last' = [Called("createProxy", h, 0) EXCEPT !.arg = c]
    /\ UNCHANGED <<comms, freeCalls, tls, terminated, guard, nativeLog, errIn, thrown>>
    /\ UNCHANGED procVars

\* mpiWorld(): the thread_local proxy of MPI_COMM_WORLD, built by the first call
mpiWorld ==
    /\ Running
    /\ tls' = IF tls.world.alive THEN tls
              ELSE [tls EXCEPT !.world = HandleFromPointer(MPI_COMM_WORLD)]
    /\ last' = [Called("mpiWorld", WorldRef, 0) EXCEPT !.arg = MPI_COMM_WORLD]
    /\ UNCHANGED <<comms, freeCalls, handles, terminated, guard, nativeLog, errIn, thrown>>
    /\ UNCHANGED procVars

\* mpiSelf(): the thread_local proxy of MPI_COMM_SELF, built by the first call
mpiSelf ==
    /\ Running
    /\ tls' = IF tls.self.alive THEN tls
              ELSE [tls EXCEPT !.self = HandleFromPointer(MPI_COMM_SELF)]
    /\ last' = [Called("mpiSelf", SelfRef, 0) EXCEPT !.arg = MPI_COMM_SELF]
    /\ UNCHANGED <<comms, freeCalls, handles, terminated, guard, nativeLog, errIn, thrown>>
    /\ UNCHANGED procVars

\* ------------------------------------------------ copy, move, destroy
\* deleting an implementation object: one outcome per result of the native free
DestroyImpl(impl) ==
    IF DestructorFrees(impl)
    THEN {[freed |-> <<impl.comm>>, err |-> e] : e \in MPI_Comm_free(impl.comm)}
    ELSE {[freed |-> <<>>, err |-> MPI_SUCCESS]}

FreeCallsAfter(fc, freed) ==
    [c \in CommIds |-> IF freed = <<c>> THEN fc[c] + 1 ELSE fc[c]]

CommsAfterDestroy(table, d) ==
    IF d.freed = <<>> THEN table ELSE CommsAfterFree(table, d.freed[1], d.err)

\* if(error != MPI_SUCCESS) std::terminate()
TerminatedAfterDestroy(d) ==
    IF d.err # MPI_SUCCESS THEN "terminate" ELSE "no"

\* MPIcommunicatorHandle(const MPIcommunicatorHandle& rhs): impl = rhs.impl->deepCopy()
CopyConstruct(h, s) ==
    /\ Running
    /\ NewObject(h)
    /\ Obj(s).alive
    /\ IF Obj(s).impl.kind = "null"
       THEN /\ terminated' \in NullDereference
            /\ last' = Called("CopyConstruct", h, s)
            /\ UNCHANGED <<handles, comms>>
       ELSE \E o \in deepCopy(Obj(s).impl) :
            /\ handles' = IF o.exc.thrown THEN handles
                          ELSE [handles EXCEPT ![h] = Alive(o.impl)]
            /\ comms' = CommsAfterDup(comms, Obj(s).impl.comm, o.dup)
            /\ last' = [Called("CopyConstruct", h, s) EXCEPT !.exc = o.exc, !.dups = o.dups]
            /\ UNCHANGED terminated
    /\ UNCHANGED <<freeCalls, tls, guard, nativeLog, errIn, thrown>>
    /\ UNCHANGED procVars

\* MPIcommunicatorHandle(MPIcommunicatorHandle&& rhs): impl = std::move(rhs.impl)
MoveConstruct(h, s) ==
    /\ Running
    /\ NewObject(h)
    /\ s \in HandleIds /\ handles[s].alive
    /\ handles' = [handles EXCEPT ![h] = Alive(Moved(handles[s].impl).to),
                                  ![s] = Alive(Moved(handles[s].impl).from)]
    /\ last' = Called("MoveConstruct", h, s)
    /\ UNCHANGED <<comms, freeCalls, tls, terminated, guard, nativeLog, errIn, thrown>>
    /\ UNCHANGED procVars

\* ~MPIcommunicatorHandle() = default: the unique_ptr deletes the implementation, if any
Destroy(h) ==
    /\ Running
    /\ handles[h].alive
    /\ \E d \in DestroyImpl(handles[h].impl) :
        /\ comms' = CommsAfterDestroy(comms, d)
        /\ freeCalls' = FreeCallsAfter(freeCalls, d.freed)
        /\ terminated' = TerminatedAfterDestroy(d)
        /\ last' = [Called("Destroy", h, 0) EXCEPT !.freed = d.freed]
    /\ handles' = [handles EXCEPT ![h] = Dead]
    /\ UNCHANGED <<tls, guard, nativeLog, errIn, thrown>>
    /\ UNCHANGED procVars

\* operator=(const MPIcommunicatorHandle& rhs): impl = rhs.impl->deepCopy().
\* The copy is made first; the unique_ptr then takes it and deletes what it held.
CopyAssign(x, s) ==
    /\ Running
    /\ handles[x].alive
    /\ Obj(s).alive
    /\ IF Obj(s).impl.kind = "null"
       THEN /\ terminated' \in NullDereference
            /\ last' = Called("CopyAssign", x, s)
            /\ UNCHANGED <<handles, comms, freeCalls>>
       ELSE \E o \in deepCopy(Obj(s).impl) :
            IF o.exc.thrown
            THEN /\ last' = [Called("CopyAssign", x, s) EXCEPT !.exc = o.exc, !.dups = o.dups]
                 /\ UNCHANGED <<handles, comms, freeCalls, terminated>>
            ELSE \E d \in DestroyImpl(handles[x].impl) :
                 /\ comms' = CommsAfterDestroy(
                                 CommsAfterDup(comms, Obj(s).impl.comm, o.dup), d)
                 /\ freeCalls' = FreeCallsAfter(freeCalls, d.freed)
                 /\ terminated' = TerminatedAfterDestroy(d)
                 /\ handles' = [handles EXCEPT ![x] = Alive(o.impl)]
                 /\ last' = [Called("CopyAssign", x, s) EXCEPT !.exc = o.exc, !.dups = o.dups,
                                         !.freed = d.freed]
    /\ UNCHANGED <<tls, guard, nativeLog, errIn, thrown>>
    /\ UNCHANGED procVars

\* operator=(MPIcommunicatorHandle&& rhs): impl = std::move(rhs.impl), which is
\* reset(rhs.impl.release()): on self-assignment the pointer is put back unchanged
MoveAssign(x, s) ==
    /\ Running
    /\ handles[x].alive
    /\ s \in HandleIds /\ handles[s].alive
    /\ IF x = s
       THEN /\ last' = Called("MoveAssign", x, s)
            /\ UNCHANGED <<handles, comms, freeCalls, terminated>>
       ELSE \E d \in DestroyImpl(handles[x].impl) :
            /\ comms' = CommsAfterDestroy(comms, d)
            /\ freeCalls' = FreeCallsAfter(freeCalls, d.freed)
            /\ terminated' = TerminatedAfterDestroy(d)
            /\ handles' = [handles EXCEPT ![x] = Alive(Moved(handles[s].impl).to),
                                          ![s] = Alive(Moved(handles[s].impl).from)]
            /\ last' = [Called("MoveAssign", x, s) EXCEPT !.freed = d.freed]
    /\ UNCHANGED <<tls, guard, nativeLog, errIn, thrown>>
    /\ UNCHANGED procVars

\* MPI_Comm_split(c, color, key, &splitted) as one process sees it: it may fail with any
\* error code; on a live communicator, while the table has a free entry, it yields a new
\* communicator whose group is the part of c's group that passed the same color (here:
\* all of it, or this process alone), or MPI_COMM_NULL for the color MPI_UNDEFINED
CommSplit(c) ==
    {[err |-> e, out |-> MPI_COMM_NULL, group |-> <<>>] : e \in ErrCodes \ {MPI_SUCCESS}}
    \cup (IF IsLive(c)
          THEN {[err |-> MPI_SUCCESS, out |-> MPI_COMM_NULL, group |-> <<>>]}
               \cup (IF FreshIds # {}
                     THEN {[err |-> MPI_SUCCESS, out |-> MinOf(FreshIds), group |-> g] :
                              g \in {comms[c].group, <<comms[c].group[1]>>}}
                     ELSE {})
          ELSE {})

CommsAfterSplit(table, r) ==
    IF r.err = MPI_SUCCESS /\ r.out \in CommIds
    THEN [table EXCEPT ![r.out] = [state |-> "live", group |-> r.group]]
    ELSE table

\* Communicator::split(color, key): MPI_Comm splitted;
\* handleError(MPI_Comm_split(handle.get(), color, key, &splitted)); return Communicator{&splitted}
split(h, x) ==
    /\ Running
    /\ NewObject(h)
    /\ Obj(x).alive
    /\ IF Obj(x).impl.kind = "null"
       THEN /\ terminated' \in NullDereference
            /\ last' = Called("split", h, x)
            /\ UNCHANGED <<handles, comms>>
       ELSE \E r \in CommSplit(get(Obj(x))) :
            LET exc == handleError(r.err)
            IN  /\ handles' = IF exc.thrown THEN handles
                              ELSE [handles EXCEPT ![h] = HandleFromPointer(r.out)]
                /\ comms' = CommsAfterSplit(comms, r)
                /\ last' = [Called("split", h, x) EXCEPT !.exc = exc, !.arg = r.out]
                /\ UNCHANGED terminated
    /\ UNCHANGED <<freeCalls, tls, guard, nativeLog, errIn, thrown>>
    /\ UNCHANGED procVars

\* the client is done with the result of its last call and goes on
Return ==
    /\ terminated = "no"
    /\ last.op # "none"
    /\ last' = NoOp
    /\ UNCHANGED <<comms, freeCalls, handles, tls, terminated, guard, nativeLog, errIn, thrown>>
    /\ UNCHANGED procVars

\* ------------------------------------------------------- comparisons
\* areCongruent(a, b): MPI_Comm_compare(a.get(), b.get(), &result); result == MPI_CONGRUENT.
\* The set of values the call can return.
areCongruentBad(a, b) == {r # MPI_UNEQUAL : r \in MPI_Comm_compare(get(a), get(b))}

areCongruent(a, b) == {r = MPI_CONGRUENT : r \in MPI_Comm_compare(get(a), get(b))}

\* areIdentical(a, b): MPI_Comm_compare(a.get(), b.get(), &result); result == MPI_IDENT
areIdentical(a, b) == {r = MPI_IDENT : r \in MPI_Comm_compare(get(a), get(b))}

\* the comparison helpers of the tests, on native communicators
areCongruentMPI(a, b) == {r = MPI_CONGRUENT : r \in MPI_Comm_compare(a, b)}

areIdenticalMPI(a, b) == {r = MPI_IDENT : r \in MPI_Comm_compare(a, b)}

\* ------------------------------------------------------ specification
Next ==
    \/ \E h \in HandleIds, c \in CommIds : ConstructOwned(h, c)
    \/ \E h \in HandleIds, c \in CommIds : ConstructProxy(h, c)
    \/ \E h \in HandleIds, c \in CommIds : createProxy(h, c)
    \/ mpiWorld
    \/ mpiSelf
    \/ \E h \in HandleIds, s \in Refs : CopyConstruct(h, s)
    \/ \E h \in HandleIds, s \in HandleIds : MoveConstruct(h, s)
    \/ \E h \in HandleIds : Destroy(h)
    \/ \E x \in HandleIds, s \in Refs : CopyAssign(x, s)
    \/ \E x \in HandleIds, s \in HandleIds : MoveAssign(x, s)
    \/ Return

Spec == Init /\ [][Next]_vars

\* the same client, which also splits the communicators it holds
NextWithSplit ==
    \/ Next
    \/ \E h \in HandleIds, x \in Refs : split(h, x)

SpecWithSplit == Init /\ [][NextWithSplit]_vars

\* ------------- the guards and handleError, with any native result code
ErrInputs == ((0 - MaxErr)..MaxErr) \cup {INT_MAX, 0 - INT_MAX - 1}

\* what a native call of this run returns: success, or the error code of the run
NativeResults == {MPI_SUCCESS, errIn}

InitGuard ==
    /\ InitCommon
    /\ guard \in [kind : GuardKinds, state : {"none"}, exc : {NoException},
                  init : {MPI_SUCCESS}, fin : {MPI_SUCCESS}]
    /\ nativeLog = <<>>
    /\ errIn \in ErrInputs
    /\ prog = NoProgram
    /\ InitProcesses

HandleErrorCall ==
    /\ ~thrown.called
    /\ thrown' = [called |-> TRUE, exc |-> handleError(errIn)]
    /\ UNCHANGED <<comms, freeCalls, handles, tls, last, terminated, guard, nativeLog,
                   errIn>>
    /\ UNCHANGED procVars

NextGuard ==
    \/ HandleErrorCall
    \/ \E e \in NativeResults : GuardConstruct(e)
    \/ \E e \in NativeResults : GuardDestroy(e)

SpecGuard == InitGuard /\ [][NextGuard]_vars

TypeOK ==
    /\ terminated \in {"no", "terminate", "crash", "abort"}
    /\ \A c \in CommIds : comms[c].state \in {"unalloc", "live", "freed"}
    /\ \A h \in HandleIds : handles[h].impl.kind \in {"null", "owned", "proxy"}

\* ================================================================ claims
HasImpl(impl) == impl.kind \in {"owned", "proxy"}
Succeeded(op) == last.op = op /\ ~last.exc.thrown /\ terminated \notin NullDereference
DstComm == get(Obj(last.dst))

\* C1: copy construction from a handle that holds an implementation (owning or
\* proxy) issues exactly one native duplication, whether or not it succeeds, and
\* leaves the source holding the native communicator it held; when it succeeds the
\* new handle's communicator is congruent to the source's and not identical with it.
C1_CopyDuplicates ==
    (last.op = "CopyConstruct" /\ HasImpl(last.srcWas)) =>
        /\ last.dups = 1
        /\ Obj(last.src).impl = last.srcWas
        /\ last.freed = <<>>
        /\ ~last.exc.thrown =>
            /\ Obj(last.dst).alive
            /\ DstComm # last.srcWas.comm
            /\ areCongruentMPI(DstComm, last.srcWas.comm) = {TRUE}
            /\ areIdenticalMPI(DstComm, last.srcWas.comm) = {FALSE}

C1_Witness ==
    /\ Succeeded("CopyConstruct")
    /\ last.srcWas.kind = "owned"
    /\ handles[last.dst].impl.kind = "owned"

\* C2 as stated: after a move construction or a move assignment from a source that
\* held a communicator, the target holds that very communicator, nothing was
\* duplicated, and the source no longer owns it (its destructor will not free it).
C2_MoveTransfersAsStated ==
    (last.op \in {"MoveConstruct", "MoveAssign"} /\ HasImpl(last.srcWas)) =>
        /\ DstComm = last.srcWas.comm
        /\ last.dups = 0
        /\ ~(DestructorFrees(Obj(last.src).impl)
             /\ get(Obj(last.src)) = last.srcWas.comm)

\* C2 amended: the above holds when source and target are distinct objects; the
\* target then holds the source's implementation (same variant, same communicator),
\* the source holds none, and the communicator is not freed by the move.  A move
\* assignment of a handle to itself changes nothing: the handle keeps its
\* implementation and still owns what it owned.
C2_MoveTransfers ==
    (last.op \in {"MoveConstruct", "MoveAssign"} /\ HasImpl(last.srcWas)) =>
        /\ last.dups = 0
        /\ DstComm = last.srcWas.comm
        /\ IF last.dst # last.src
           THEN /\ Obj(last.dst).impl = last.srcWas
                /\ Obj(last.src).impl = NullImpl
                /\ ~DestructorFrees(Obj(last.src).impl)
                /\ last.srcWas.kind = "owned" =>
                      /\ freeCalls[last.srcWas.comm] = 0
                      /\ IsLive(last.srcWas.comm)
           ELSE /\ Obj(last.dst).impl = last.dstWas
                /\ last.freed = <<>>

C2_Witness ==
    /\ last.op = "MoveAssign"
    /\ last.dst # last.src
    /\ last.srcWas.kind = "owned"
    /\ last.dstWas.kind = "owned"
    /\ terminated = "no"

\* C3: destroying a handle issues the native free on its communicator if and only
\* if the handle holds the owning variant, and then exactly once; destroying a
\* proxy (or a moved-from handle) issues no native free, so the aliased
\* communicator is as it was.
C3_DestroyFreesOwnedOnly ==
    (last.op = "Destroy") =>
        /\ ~Obj(last.dst).alive
        /\ (last.freed # <<>>) <=> (last.dstWas.kind = "owned")
        /\ last.dstWas.kind = "owned" =>
              /\ last.freed = <<last.dstWas.comm>>
              /\ freeCalls[last.dstWas.comm] = 1
              /\ terminated = "no" => comms[last.dstWas.comm].state = "freed"
        /\ last.dstWas.kind = "proxy" =>
              /\ last.freed = <<>>
              /\ terminated = "no"
              /\ \A c \in CommIds : freeCalls[c] = 0 => comms[c].state # "freed"

C3_Witness ==
    /\ last.op = "Destroy"
    /\ last.dstWas.kind = "proxy"
    /\ last.dstWas.comm \notin {MPI_COMM_WORLD, MPI_COMM_SELF}
    /\ IsLive(last.dstWas.comm)
    /\ \E c \in CommIds : freeCalls[c] = 1

\* C4: a handle or Communicator constructed from a native communicator c (the
\* default is MPI_COMM_WORLD) holds a communicator congruent to c and not identical
\* to c; the construction issues one native duplication and, when that fails,
\* throws and constructs nothing.
C4_OwningConstructionDuplicates ==
    (last.op = "ConstructOwned") =>
        /\ last.dups = 1
        /\ IF last.exc.thrown
           THEN ~Obj(last.dst).alive
           ELSE /\ Obj(last.dst).alive
                /\ Obj(last.dst).impl.kind = "owned"
                /\ areCongruentMPI(DstComm, last.arg) = {TRUE}
                /\ areIdenticalMPI(DstComm, last.arg) = {FALSE}

C4_Witness ==
    /\ Succeeded("ConstructOwned")
    /\ last.arg = MPI_COMM_WORLD
    /\ handles[last.dst].alive

C6_CopiedProxiesOwnMovedProxiesAlias ==
    /\ (Succeeded("CopyConstruct") /\ last.srcWas.kind = "proxy") =>
          /\ Obj(last.dst).impl.kind = "owned"
          /\ areCongruentMPI(DstComm, last.srcWas.comm) = {TRUE}
          /\ areIdenticalMPI(DstComm, last.srcWas.comm) = {FALSE}
    /\ (last.op = "MoveConstruct" /\ last.srcWas.kind = "proxy") =>
          /\ Obj(last.dst).impl.kind = "proxy"
          /\ DstComm = last.srcWas.comm
          /\ IsLive(DstComm) =>
                areIdenticalMPI(DstComm, last.srcWas.comm) = {TRUE}

C6_Witness ==
    /\ Succeeded("CopyConstruct")
    /\ last.srcWas.kind = "proxy"
    /\ last.src \in HandleIds
    /\ handles[last.dst].impl.kind = "owned"

\* C7: a successful copy assignment x = rhs between two distinct handles leaves x
\* owning a fresh duplicate of rhs's communicator (one native duplication, a live
\* communicator that is not rhs's, congruent to it while rhs's is live),
\* leaves rhs as it was, and issues exactly one native free on the communicator x
\* owned before; it issues none if x was a proxy.
C7_CopyAssignment ==
    (Succeeded("CopyAssign") /\ last.dst # last.src /\ HasImpl(last.srcWas)) =>
        /\ last.dups = 1
        /\ Obj(last.dst).impl.kind = "owned"
        /\ DstComm # last.srcWas.comm
        /\ DstComm # last.dstWas.comm
        /\ IsLive(DstComm)
        /\ freeCalls[DstComm] = 0
        /\ IsLive(last.srcWas.comm) =>
              areCongruentMPI(DstComm, last.srcWas.comm) = {TRUE}
        /\ Obj(last.src).impl = last.srcWas
        /\ last.dstWas.kind = "owned" =>
              /\ last.freed = <<last.dstWas.comm>>
              /\ freeCalls[last.dstWas.comm] = 1
        /\ last.dstWas.kind # "owned" => last.freed = <<>>

C7_Witness ==
    /\ Succeeded("CopyAssign")
    /\ last.dst # last.src
    /\ last.dstWas.kind = "owned"
    /\ HasImpl(last.srcWas)
    /\ last.src \in HandleIds
    /\ terminated = "no"
    /\ comms[last.dstWas.comm].state = "freed"
    /\ IsLive(DstComm)

\* objects that hold a live communicator
ValidRefs == {r \in Refs : Obj(r).alive /\ HasImpl(Obj(r).impl) /\ IsLive(get(Obj(r)))}

DigitValue(ch) ==
    CASE ch = "0" -> 0 [] ch = "1" -> 1 [] ch = "2" -> 2 [] ch = "3" -> 3 [] ch = "4" -> 4
      [] ch = "5" -> 5 [] ch = "6" -> 6 [] ch = "7" -> 7 [] ch = "8" -> 8 [] ch = "9" -> 9

RECURSIVE ReadDigits(_, _)
ReadDigits(chars, sign) ==
    IF chars = <<>> THEN 0
    ELSE ReadDigits(SubSeq(chars, 1, Len(chars) - 1), sign) * 10
         + sign * DigitValue(chars[Len(chars)])

ReadNumber(chars) ==
    IF chars # <<>> /\ chars[1] = "-" THEN ReadDigits(Tail(chars), 0 - 1)
    ELSE ReadDigits(chars, 1)

\* the characters of a message between "Error code " and " in MPI."
EmbeddedCode(what) == SubSeq(what, Len(ErrorPrefix) + 1, Len(what) - Len(ErrorSuffix))

\* C9: handleError(e) throws a NiceMPIexception if and only if e is not the native
\* success code; the exception's error field is e and its message is
\* "Error code <e> in MPI." with e in decimal; on the success code it returns
\* normally and throws nothing.
C9_ErrorTranslation ==
    thrown.called =>
        /\ thrown.exc.thrown <=> (errIn # MPI_SUCCESS)
        /\ thrown.exc.thrown =>
              /\ thrown.exc.error = errIn
              /\ SubSeq(thrown.exc.what, 1, Len(ErrorPrefix)) = ErrorPrefix
              /\ SubSeq(thrown.exc.what, Len(thrown.exc.what) - Len(ErrorSuffix) + 1,
                        Len(thrown.exc.what)) = ErrorSuffix
              /\ ReadNumber(EmbeddedCode(thrown.exc.what)) = errIn
        /\ errIn = MPI_SUCCESS => thrown.exc = NoException

C9_Witness ==
    /\ thrown.called
    /\ thrown.exc.thrown
    /\ errIn < 0 - 9
    /\ Len(thrown.exc.what) = Len(ErrorPrefix) + 3 + Len(ErrorSuffix)

\* C10: the guard's constructor calls the native initialization once and its
\* destructor calls the native finalization once, in that order; when the
\* initialization fails the constructor throws a NiceMPIexception with the native
\* code, no guard exists and the finalization is never called; the destructor
\* never throws, and the one of MPI_RAII terminates the program exactly when the
\* finalization reports an error.
C10_InitializationGuard ==
    /\ guard.state = "none" => nativeLog = <<>>
    /\ guard.state = "alive" =>
          nativeLog = <<"MPI_Init">> /\ guard.init = MPI_SUCCESS /\ ~guard.exc.thrown
    /\ guard.state = "failed" =>
          /\ nativeLog = <<"MPI_Init">>
          /\ guard.init # MPI_SUCCESS
          /\ guard.exc = NiceMPIexception(guard.init)
          /\ terminated = "no"
    /\ guard.state = "destroyed" =>
          /\ nativeLog = <<"MPI_Init", "MPI_Finalize">>
          /\ ~guard.exc.thrown
          /\ guard.kind = "MPI_RAII" =>
                ((terminated = "terminate") <=> (guard.fin # MPI_SUCCESS))

C10_Witness ==
    /\ guard.kind = "MPI_RAII"
    /\ guard.state = "destroyed"
    /\ guard.fin # MPI_SUCCESS
    /\ terminated = "terminate"

\* ============================================================================
\* The processes of MPI_COMM_WORLD calling the Communicator methods.
\* A native communicator is its context and its group (world ranks in rank order).
\* ============================================================================
NativeComm(parent, tag, group) == [context |-> <<parent, tag>>, group |-> group]

NullComm == NativeComm(MPI_COMM_NULL, MPI_COMM_NULL, <<>>)

WorldComm == NativeComm(MPI_COMM_NULL, MPI_COMM_WORLD, WorldGroup(NumProcs))

\* mpiWorld(): the proxy of MPI_COMM_WORLD every rank calls the methods on
TheWorld == HandleFromPointer(WorldComm)

Members(comm) == {comm.group[i] : i \in 1..Len(comm.group)}

\* MPI_Comm_rank, MPI_Comm_size
MPI_Comm_rank(comm, p) == (CHOOSE i \in 1..Len(comm.group) : comm.group[i] = p) - 1

MPI_Comm_size(comm) == Len(comm.group)

\* Communicator::rank() and Communicator::size(), called by process p
rank(h, p) == MPI_Comm_rank(get(h), p)

size(h) == MPI_Comm_size(get(h))

\* the k-th native collective call of every rank of comm has been entered
AllEntered(comm, k) == \A q \in Members(comm) : Len(contrib[q]) >= k

Returned(p, op) == ret[p].done /\ ret[p].args.op = op /\ ~ret[p].exc.thrown

\* ------------------------------------------------ Communicator::split
MPI_UNDEFINED == 0 - 32766

Colors == {0, 1, MPI_UNDEFINED}

Keys == 0..(NumProcs - 1)

\* MPI_Comm_split orders the ranks of one color by key, ties by their rank in comm
SplitBefore(comm, entry, a, b) ==
    \/ entry[a].key < entry[b].key
    \/ entry[a].key = entry[b].key /\ MPI_Comm_rank(comm, a) < MPI_Comm_rank(comm, b)

SplitGroup(comm, entry, color) ==
    LET same == {q \in Members(comm) : entry[q].color = color}
        pos(q) == Cardinality({a \in same : SplitBefore(comm, entry, a, q)})
    IN  [i \in 1..Cardinality(same) |-> CHOOSE q \in same : pos(q) = i - 1]

\* what MPI_Comm_split stores in *newcomm on rank p, given every rank's (color, key)
MPI_Comm_split(comm, entry, p) ==
    IF entry[p].color = MPI_UNDEFINED THEN NullComm
    ELSE NativeComm(comm.context[2], entry[p].color, SplitGroup(comm, entry, entry[p].color))

\* the arguments split hands to MPI_Comm_split
splitArgumentsBad(color, key) == [fn |-> "MPI_Comm_split", color |-> key, key |-> color]

splitArguments(color, key) == [fn |-> "MPI_Comm_split", color |-> color, key |-> key]

\* rank p enters split(color, key) on mpiWorld(): the native call is collective
splitCall(p, color, key) ==
    /\ call[p] = Idle
    /\ ~ret[p].done
    /\ call' = [call EXCEPT ![p] = [op |-> "split", color |-> color, key |-> key]]
    /\ contrib' = [contrib EXCEPT ![p] = Append(@, splitArguments(color, key))]
    /\ UNCHANGED <<prog, ret, sends, recvs>>
    /\ UNCHANGED handleVars

\* the native call returns on p once every rank has entered it; split returns Communicator{&splitted}
splitReturn(p) ==
    /\ call[p].op = "split"
    /\ AllEntered(get(TheWorld), 1)
    /\ LET entry == [q \in Ranks |-> contrib[q][1]]
           splitted == MPI_Comm_split(get(TheWorld), entry, p)
       IN  ret' = [ret EXCEPT ![p] = [done |-> TRUE, args |-> call[p],
                                      exc |-> handleError(MPI_SUCCESS),
                                      value |-> HandleFromPointer(splitted)]]
    /\ call' = [call EXCEPT ![p] = Idle]
    /\ UNCHANGED <<prog, contrib, sends, recvs>>
    /\ UNCHANGED handleVars

NextSplit ==
    \/ \E p \in Ranks, color \in Colors, key \in Keys : splitCall(p, color, key)
    \/ \E p \in Ranks : splitReturn(p)

SpecSplit == Init /\ [][NextSplit]_vars

\* what rank q passed to the call it is in, or to the call it has returned from
Passed(q) == IF ret[q].done THEN ret[q].args ELSE call[q]

\* C11: split(color, key), called by every rank, puts two ranks in the same new
\* communicator exactly when they passed the same color, and orders the ranks of a
\* new communicator by key; with color = rank mod 2 and key = rank the new rank is
\* rank div 2 and the new size is the number of old ranks with the same parity.
C11_SplitByColorOrderedByKey ==
    \A p \in Ranks :
        (Returned(p, "split") /\ Passed(p).color # MPI_UNDEFINED) =>
            LET mine == ret[p].value
            IN  /\ \A q \in Ranks :
                    /\ q \in Members(get(mine)) <=> Passed(q).color = Passed(p).color
                    /\ (Returned(q, "split") /\ Passed(q).color # MPI_UNDEFINED) =>
                            (get(ret[q].value) = get(mine) <=> Passed(q).color = Passed(p).color)
                /\ \A a, b \in Members(get(mine)) :
                    Passed(a).key < Passed(b).key => rank(mine, a) < rank(mine, b)
                /\ (\A q \in Ranks : Passed(q).color = q % 2 /\ Passed(q).key = q) =>
                        /\ rank(mine, p) = p \div 2
                        /\ size(mine) = Cardinality({q \in Ranks : q % 2 = p % 2})

\* every rank has returned from split(rank mod 2, rank); ranks 0 and 2 share a communicator
C11_Witness ==
    /\ \A q \in Ranks : Returned(q, "split") /\ Passed(q).color = q % 2 /\ Passed(q).key = q
    /\ \E a, b \in Ranks : a # b /\ b \in Members(get(ret[a].value))

\* ============================================================================
\* Data: a POD value of Type is SizeofType bytes; every method hands the native
\* library a byte buffer (MPI_UNSIGNED_CHAR) and a count of bytes.
\* ============================================================================
Values == {75, 300}

\* the object representation of v, least significant byte first
ObjectBytes(v) == [k \in 1..SizeofType |-> (v \div (256 ^ (k - 1))) % 256]

\* data.data() seen as bytes
Bytes(items) ==
    [k \in 1..(Len(items) * SizeofType) |->
        ObjectBytes(items[((k - 1) \div SizeofType) + 1])[((k - 1) % SizeofType) + 1]]

RECURSIVE ObjectValue(_)
ObjectValue(bytes) ==
    IF bytes = <<>> THEN 0 ELSE bytes[1] + 256 * ObjectValue(Tail(bytes))

\* the n objects of Type stored in a byte buffer
Objects(bytes, n) ==
    [i \in 1..n |-> ObjectValue(SubSeq(bytes, (i - 1) * SizeofType + 1, i * SizeofType))]

\* sizeof(Type) * count, the byte count handed to the native library
ByteCountBad(count) == count

ByteCount(count) == SizeofType * count

Collections == UNION {[1..n -> Values] : n \in 0..MaxCount}

\* ----------------------------------------- sendAndBlock / receiveAndBlock
MPI_ANY_TAG == 0 - 1

SendTags == {0, 3}

ArraySize == 2

\* initializeWithCount(Collection{}, count): a vector of count value-initialized
\* elements; a std::array is returned as it is, whatever the count
initializeWithCount(kind, count) ==
    [i \in 1..(IF kind = "array" THEN ArraySize ELSE count) |-> 0]

\* the native matching rule: receive j takes send i when source, destination and tag
\* agree and neither has an earlier partner (messages do not overtake)
Matches(i, j) ==
    /\ sends[i].dst = recvs[j].at
    /\ sends[i].src = recvs[j].src
    /\ recvs[j].tag \in {sends[i].tag, MPI_ANY_TAG}

\* what the native library reads from the send buffer when it transfers the message:
\* the data, unless the buffer was destroyed before the library copied it; then the
\* memory holds the old bytes or anything else
BufferReads(send) ==
    IF send.dangling THEN {send.bytes, [k \in 1..Len(send.bytes) |-> 0]} ELSE {send.bytes}

\* a message longer than the receive buffer is an error (MPI_ERR_TRUNCATE); a shorter
\* one leaves the rest of the buffer as it was; a receive whose buffer was freed writes
\* to memory that is no longer the buffer (wild), after which anything may happen
Deliver(i, j) ==
    /\ i \in 1..Len(sends) /\ j \in 1..Len(recvs)
    /\ ~sends[i].delivered /\ ~recvs[j].done
    /\ Matches(i, j)
    /\ \A k \in 1..(i - 1) : sends[k].delivered \/ ~Matches(k, j)
    /\ \A k \in 1..(j - 1) : recvs[k].done \/ ~Matches(i, k)
    /\ \E msg \in BufferReads(sends[i]) :
          LET fits == Len(msg) <= recvs[j].capacity
          IN  recvs' = [recvs EXCEPT ![j] = [@ EXCEPT
                        !.done = TRUE, !.from = i, !.wild = (recvs[j].owner = "freed"),
                        !.code = IF fits THEN MPI_SUCCESS ELSE NativeErrorCode,
                        !.buf = IF fits THEN msg \o SubSeq(@, Len(msg) + 1, Len(@)) ELSE @]]
    /\ sends' = [sends EXCEPT ![i].delivered = TRUE]
    /\ UNCHANGED <<prog, call, ret, contrib>>
    /\ UNCHANGED handleVars

\* sendAndBlock(data, destination, tag), both overloads: MPI_Send(&data or data.data(),
\* sizeof(Type) * size, MPI_UNSIGNED_CHAR, destination, tag, comm). The native library
\* may buffer the message, or hold the sender until the message is received.
sendAndBlockCall(p, scalar, data, destination, tag, buffered) ==
    /\ call[p] = Idle /\ ~ret[p].done
    /\ scalar => Len(data) = 1
    /\ sends' = Append(sends, [src |-> p, dst |-> destination, tag |-> tag,
                               bytes |-> SubSeq(Bytes(data), 1, ByteCount(Len(data))),
                               buffered |-> buffered, delivered |-> FALSE,
                               alive |-> TRUE, dangling |-> FALSE])
    /\ call' = [call EXCEPT ![p] = [op |-> "sendAndBlock", scalar |-> scalar, data |-> data,
                                    destination |-> destination, tag |-> tag,
                                    request |-> Len(sends) + 1]]
    /\ UNCHANGED <<prog, ret, contrib, recvs>>
    /\ UNCHANGED handleVars

sendAndBlockReturn(p) ==
    /\ call[p].op = "sendAndBlock"
    /\ sends[call[p].request].buffered \/ sends[call[p].request].delivered
    /\ ret' = [ret EXCEPT ![p] = [done |-> TRUE, args |-> call[p],
                                  exc |-> handleError(MPI_SUCCESS), value |-> <<>>]]
    /\ call' = [call EXCEPT ![p] = Idle]
    /\ UNCHANGED <<prog, contrib, sends, recvs>>
    /\ UNCHANGED handleVars

\* receiveAndBlock<Type>(source, tag): Type data; MPI_Recv(&data, sizeof(Type), ...)
\* receiveAndBlock<Collection>(count, source, tag): data = initializeWithCount(Collection{}, count);
\* MPI_Recv(data.data(), sizeof(Type) * count, ...). A scalar starts with an indeterminate value.
receiveAndBlockCall(p, kind, count, source, tag, indeterminate) ==
    /\ call[p] = Idle /\ ~ret[p].done
    /\ kind = "scalar" => count = 1
    /\ kind = "array" => count <= ArraySize
    /\ kind # "scalar" => indeterminate = 0
    /\ LET data == IF kind = "scalar" THEN <<indeterminate>> ELSE initializeWithCount(kind, count)
       IN  recvs' = Append(recvs, [at |-> p, src |-> source, tag |-> tag,
                                   capacity |-> ByteCount(count), buf |-> Bytes(data),
                                   done |-> FALSE, from |-> 0, code |-> MPI_SUCCESS,
                                   owner |-> "call", wild |-> FALSE])
    /\ call' = [call EXCEPT ![p] = [op |-> "receiveAndBlock", kind |-> kind, count |-> count,
                                    source |-> source, tag |-> tag, request |-> Len(recvs) + 1]]
    /\ UNCHANGED <<prog, ret, contrib, sends>>
    /\ UNCHANGED handleVars

receiveAndBlockReturn(p) ==
    /\ call[p].op = "receiveAndBlock"
    /\ recvs[call[p].request].done
    /\ LET r == recvs[call[p].request]
           exc == handleError(r.code)
       IN  ret' = [ret EXCEPT ![p] = [done |-> TRUE, args |-> call[p], exc |-> exc,
                        value |-> IF exc.thrown THEN <<>>
                                  ELSE Objects(r.buf, Len(r.buf) \div SizeofType)]]
    /\ call' = [call EXCEPT ![p] = Idle]
    /\ UNCHANGED <<prog, contrib, sends, recvs>>
    /\ UNCHANGED handleVars

\* a run: rank s sends to rank d, and rank d receives from rank s
InitBlocking ==
    /\ InitLibrary
    /\ prog \in {[op |-> "pair", s |-> s, d |-> d] : s, d \in Ranks}
    /\ prog.s # prog.d
    /\ InitProcesses

NextBlocking ==
    \/ \E scalar, buffered \in BOOLEAN, data \in Collections, tag \in SendTags :
            sendAndBlockCall(prog.s, scalar, data, prog.d, tag, buffered)
    \/ sendAndBlockReturn(prog.s)
    \/ \E kind \in {"scalar", "vector", "array"}, count \in 0..MaxCount,
          tag \in SendTags \cup {MPI_ANY_TAG}, indeterminate \in Values \cup {0} :
            receiveAndBlockCall(prog.d, kind, count, prog.s, tag, indeterminate)
    \/ receiveAndBlockReturn(prog.d)
    \/ \E i \in 1..Len(sends), j \in 1..Len(recvs) : Deliver(i, j)

SpecBlocking == InitBlocking /\ [][NextBlocking]_vars

Datum(q, j) == 256 * (q + 1) + j

MyData(q, n) == [j \in 1..n |-> Datum(q, j)]

RECURSIVE sum(_)
sum(data) == IF data = <<>> THEN 0 ELSE data[1] + sum(Tail(data))

\* displacements[0] = 0; displacements[i] = displacements[i-1] + sendCounts[i-1]
createDefaultDisplacementsBad(sendCounts) ==
    [i \in 1..Len(sendCounts) |-> sum(SubSeq(sendCounts, 1, i))]

RECURSIVE createDefaultDisplacements(_)
createDefaultDisplacements(sendCounts) ==
    IF Len(sendCounts) <= 1 THEN [i \in 1..Len(sendCounts) |-> 0]
    ELSE LET front == createDefaultDisplacements(SubSeq(sendCounts, 1, Len(sendCounts) - 1))
         IN  Append(front, front[Len(front)] + sendCounts[Len(sendCounts) - 1])

createScaledDisplacementsBad(displacements) == displacements

createScaledDisplacements(displacements) ==
    [i \in 1..Len(displacements) |-> displacements[i] * SizeofType]

\* for (auto&& x : scaledCounts) x *= sizeof(Type)
ScaledCountsBad(counts) == counts

ScaledCounts(counts) == [i \in 1..Len(counts) |-> ByteCount(counts[i])]

\* the receive buffer after rank i's counts[i+1] bytes were stored at displs[i+1]
Placed(entry, buf, counts, displs) ==
    [k \in 1..Len(buf) |->
        IF \E i \in 1..Len(counts) : displs[i] < k /\ k <= displs[i] + counts[i]
        THEN LET i == CHOOSE i \in 1..Len(counts) : displs[i] < k /\ k <= displs[i] + counts[i]
             IN  entry[i - 1].sendbuf[k - displs[i]]
        ELSE buf[k]]

\* the receive buffer of rank p after each native collective call
MPI_Bcast(entry, p) == SubSeq(entry[entry[p].root].sendbuf, 1, entry[p].sendcount)

MPI_ScatterAsDocumented(entry, p) ==
    LET root == entry[entry[p].root]
    IN  SubSeq(root.sendbuf, p * SizeofType + 1, p * SizeofType + entry[p].recvcount)

MPI_Scatter(entry, p) ==
    LET root == entry[entry[p].root]
    IN  SubSeq(root.sendbuf, p * root.sendcount + 1, p * root.sendcount + entry[p].recvcount)

MPI_Scatterv(entry, p) ==
    LET root == entry[entry[p].root]
    IN  SubSeq(root.sendbuf, root.displs[p + 1] + 1, root.displs[p + 1] + entry[p].recvcount)

MPI_Allgather(entry, p) ==
    Placed(entry, entry[p].recvbuf, [i \in 1..NumProcs |-> entry[p].recvcount],
           [i \in 1..NumProcs |-> (i - 1) * entry[p].recvcount])

MPI_Gather(entry, p) ==
    IF p = entry[p].root THEN MPI_Allgather(entry, p) ELSE entry[p].recvbuf

MPI_Allgatherv(entry, p) == Placed(entry, entry[p].recvbuf, entry[p].counts, entry[p].displs)

MPI_Gatherv(entry, p) ==
    IF p = entry[p].root THEN MPI_Allgatherv(entry, p) ELSE entry[p].recvbuf

NativeCollective(entry, p) ==
    CASE entry[p].fn = "MPI_Bcast" -> MPI_Bcast(entry, p)
      [] entry[p].fn = "MPI_Scatter" -> MPI_Scatter(entry, p)
      [] entry[p].fn = "MPI_Scatterv" -> MPI_Scatterv(entry, p)
      [] entry[p].fn = "MPI_Gather" -> MPI_Gather(entry, p)
      [] entry[p].fn = "MPI_Allgather" -> MPI_Allgather(entry, p)
      [] entry[p].fn = "MPI_Gatherv" -> MPI_Gatherv(entry, p)
      [] entry[p].fn = "MPI_Allgatherv" -> MPI_Allgatherv(entry, p)

\* the arguments of one native collective call
Entry(fn, root, sendbuf, sendcount, recvbuf, recvcount, counts, displs) ==
    [fn |-> fn, root |-> root, sendbuf |-> sendbuf, sendcount |-> sendcount,
     recvbuf |-> recvbuf, recvcount |-> recvcount, counts |-> counts, displs |-> displs]

\* rank p is inside method op with arguments args; the vector it will return has n elements
Enter(p, op, args, n, stage, entry) ==
    /\ prog.op = op
    /\ call[p] = Idle /\ ~ret[p].done
    /\ call' = [call EXCEPT ![p] = [op |-> op, args |-> args, n |-> n, stage |-> stage]]
    /\ contrib' = [contrib EXCEPT ![p] = Append(@, entry)]
    /\ UNCHANGED <<prog, ret, sends, recvs>>
    /\ UNCHANGED handleVars

Zeros(n) == [i \in 1..n |-> 0]

\* what the native call left in the buffer buf of rank p
Stored(buf, bytes) == [k \in 1..Len(buf) |-> IF k <= Len(bytes) THEN bytes[k] ELSE buf[k]]

NativeResult(p) ==
    LET k == Len(contrib[p])
    IN  Stored(contrib[p][k].recvbuf, NativeCollective([q \in Ranks |-> contrib[q][k]], p))

\* the last native call of the method returns on rank p, and the method returns its vector
collectiveReturn(p) ==
    /\ call[p].op \notin {"none", "split"} /\ call[p].stage = "result"
    /\ AllEntered(get(TheWorld), Len(contrib[p]))
    /\ ret' = [ret EXCEPT ![p] = [done |-> TRUE, args |-> call[p].args,
                                  exc |-> handleError(MPI_SUCCESS),
                                  value |-> Objects(NativeResult(p), call[p].n)]]
    /\ call' = [call EXCEPT ![p] = Idle]
    /\ UNCHANGED <<prog, contrib, sends, recvs>>
    /\ UNCHANGED handleVars

\* ---------------------------------------------------------- broadcast
\* broadcast(source, Type data): MPI_Bcast(&data, sizeof(Type), ...); return data
broadcastCall(p, source, data) ==
    Enter(p, "broadcast", [op |-> "broadcast", kind |-> "scalar", source |-> source, data |-> data],
          1, "result",
          Entry("MPI_Bcast", source, Bytes(data), ByteCount(1), Bytes(data), ByteCount(1), <<>>, <<>>))

\* broadcast(source, Collection data) starts with sizeToBroadcast = broadcast(source, data.size())
broadcastCollectionCall(p, kind, source, data) ==
    Enter(p, "broadcast", [op |-> "broadcast", kind |-> kind, source |-> source, data |-> data],
          Len(data), "size",
          Entry("MPI_Bcast", source, Bytes(<<Len(data)>>), ByteCount(1), Bytes(<<Len(data)>>),
                ByteCount(1), <<>>, <<>>))

\* if (rank() != source) data = initializeWithCount(Collection{}, sizeToBroadcast)
broadcastBufferBad(p, args, sizeToBroadcast) == args.data

broadcastBuffer(p, args, sizeToBroadcast) ==
    IF rank(TheWorld, p) # args.source THEN initializeWithCount(args.kind, sizeToBroadcast)
    ELSE args.data

\* the size has arrived on rank p: MPI_Bcast(data.data(), sizeof(Type) * sizeToBroadcast, ...)
broadcastSizeReturn(p) ==
    /\ call[p].op = "broadcast" /\ call[p].stage = "size"
    /\ AllEntered(get(TheWorld), Len(contrib[p]))
    /\ LET sizeToBroadcast == Objects(NativeResult(p), 1)[1]
           data == broadcastBuffer(p, call[p].args, sizeToBroadcast)
       IN  /\ call' = [call EXCEPT ![p] = [@ EXCEPT !.stage = "result", !.n = Len(data)]]
           /\ contrib' = [contrib EXCEPT ![p] = Append(@,
                    Entry("MPI_Bcast", call[p].args.source, Bytes(data), ByteCount(sizeToBroadcast),
                          Bytes(data), ByteCount(sizeToBroadcast), <<>>, <<>>))]
    /\ UNCHANGED <<prog, ret, sends, recvs>>
    /\ UNCHANGED handleVars


\* ------------------------------------------------------------ scatter
\* scatter(source, toSend, sendCount): assert(rank() != source or enoughDataToSend);
\* result(sendCount); MPI_Scatter(toSend.data(), sendCount*sizeof(Type), ..., result.data(),
\* sendCount*sizeof(Type), ..., source, comm)
scatterCall(p, source, toSend, sendCount) ==
    /\ rank(TheWorld, p) # source \/ Len(toSend) - sendCount * size(TheWorld) >= 0
    /\ Enter(p, "scatter", [op |-> "scatter", source |-> source, data |-> toSend,
                            sendCount |-> sendCount],
             sendCount, "result",
             Entry("MPI_Scatter", source, Bytes(toSend), ByteCount(sendCount),
                   Bytes(Zeros(sendCount)), ByteCount(sendCount), <<>>, <<>>))

\* ------------------------------------------------- gather / allGather
\* std::vector<Type> result; if (rank() == source) result.resize(size() * data.size())
gatherResultSizeBad(p, source, k) == size(TheWorld) * k

gatherResultSize(p, source, k) == IF rank(TheWorld, p) = source THEN size(TheWorld) * k ELSE 0

\* gather(source, data), for one object (a data of one element) and for a collection:
\* MPI_Gather(data.data(), sizeof(Type)*data.size(), ..., result.data(),
\* sizeof(Type)*data.size(), ..., source, comm)
gatherCall(p, kind, source, data) ==
    Enter(p, "gather", [op |-> "gather", kind |-> kind, source |-> source, data |-> data],
          gatherResultSize(p, source, Len(data)), "result",
          Entry("MPI_Gather", source, Bytes(data), ByteCount(Len(data)),
                Bytes(Zeros(gatherResultSize(p, source, Len(data)))), ByteCount(Len(data)),
                <<>>, <<>>))

\* allGather(data), for one object and for a collection: result(size() * data.size());
\* MPI_Allgather(data.data(), sizeof(Type)*data.size(), ..., result.data(), the same, ..., comm)
allGatherCall(p, kind, data) ==
    Enter(p, "allGather", [op |-> "allGather", kind |-> kind, source |-> p, data |-> data],
          size(TheWorld) * Len(data), "result",
          Entry("MPI_Allgather", p, Bytes(data), ByteCount(Len(data)),
                Bytes(Zeros(size(TheWorld) * Len(data))), ByteCount(Len(data)), <<>>, <<>>))

\* ------------------------------------------------------ varyingScatter
\* varyingScatter(source, toSend, sendCounts, displacements): the asserts (no negative
\* count, enough data at the source, a count for every rank), then the counts and the
\* displacements in bytes, then varyingScatterImpl: result(sendCounts[rank()]);
\* MPI_Scatterv(toSend.data(), scaledSendCounts.data(), displacements.data(), ...,
\* result.data(), scaledSendCounts[rank()], ..., source, comm)
varyingScatterCall(p, source, toSend, sendCounts, displacements) ==
    /\ \A i \in 1..Len(sendCounts) : sendCounts[i] >= 0
    /\ rank(TheWorld, p) # source \/ Len(toSend) >= sum(sendCounts)
    /\ Len(sendCounts) >= size(TheWorld)
    /\ LET scaledSendCounts == ScaledCounts(sendCounts)
           scaledDisplacements == IF displacements = <<>>
                                  THEN createDefaultDisplacements(scaledSendCounts)
                                  ELSE createScaledDisplacements(displacements)
           mine == rank(TheWorld, p) + 1
       IN  Enter(p, "varyingScatter",
                 [op |-> "varyingScatter", source |-> source, data |-> toSend,
                  counts |-> sendCounts, displacements |-> displacements],
                 sendCounts[mine], "result",
                 Entry("MPI_Scatterv", source, Bytes(toSend), scaledSendCounts[mine],
                       Bytes(Zeros(sendCounts[mine])), scaledSendCounts[mine],
                       scaledSendCounts, scaledDisplacements))

\* ------------------------------------- varyingGather / varyingAllGather
\* varyingGather(source, data, receiveCounts, displacements): the result, the counts and
\* the displacements stay empty on the ranks other than the source;
\* MPI_Gatherv(data.data(), data.size()*sizeof(Type), ..., result.data(),
\* scaledReceiveCounts.data(), scaledDisplacements.data(), ..., source, comm)
varyingGatherCall(p, source, data, receiveCounts, displacements) ==
    LET isSource == rank(TheWorld, p) = source
        scaledReceiveCounts == IF isSource THEN ScaledCounts(receiveCounts) ELSE <<>>
        scaledDisplacements ==
            IF ~isSource THEN <<>>
            ELSE IF displacements = <<>> THEN createDefaultDisplacements(scaledReceiveCounts)
            ELSE createScaledDisplacements(displacements)
        n == IF isSource THEN sum(receiveCounts) ELSE 0
    IN  Enter(p, "varyingGather",
              [op |-> "varyingGather", source |-> source, data |-> data,
               counts |-> receiveCounts, displacements |-> displacements],
              n, "result",
              Entry("MPI_Gatherv", source, Bytes(data), ByteCount(Len(data)), Bytes(Zeros(n)),
                    0, scaledReceiveCounts, scaledDisplacements))

\* varyingAllGather(data, receiveCounts, displacements): result(sum(receiveCounts));
\* MPI_Allgatherv(data.data(), data.size()*sizeof(Type), ..., result.data(),
\* scaledReceiveCounts.data(), scaledDisplacements.data(), ..., comm)
varyingAllGatherCall(p, data, receiveCounts, displacements) ==
    LET scaledReceiveCounts == ScaledCounts(receiveCounts)
        scaledDisplacements ==
            IF displacements = <<>> THEN createDefaultDisplacements(scaledReceiveCounts)
            ELSE createScaledDisplacements(displacements)
    IN  Enter(p, "varyingAllGather",
              [op |-> "varyingAllGather", source |-> p, data |-> data,
               counts |-> receiveCounts, displacements |-> displacements],
              sum(receiveCounts), "result",
              Entry("MPI_Allgatherv", p, Bytes(data), ByteCount(Len(data)),
                    Bytes(Zeros(sum(receiveCounts))), 0, scaledReceiveCounts,
                    scaledDisplacements))
\* ------------------------------------------------- the runs of the methods
\* a run: the method every rank calls, the arguments the ranks agree on, whether the
\* ranks other than the source pass empty vectors for what only the source reads,
\* and the number of elements of each rank's data
Program(op, kind, source, count, counts, displacements, others, lengths) ==
    [op |-> op, kind |-> kind, source |-> source, count |-> count, counts |-> counts,
     displacements |-> displacements, others |-> others, lengths |-> lengths]

Counts == {0, 1, MaxCount}

\* the blocks in reverse rank order; with it, the sequential layout of the default
ReverseLayout(counts) == [i \in 1..Len(counts) |-> sum(SubSeq(counts, i + 1, Len(counts)))]

Programs ==
    LET All(n) == [i \in 1..NumProcs |-> n]
        Vary == [1..NumProcs -> Counts]
        Mode == {"same", "empty"}
    IN  {Program("broadcast", "scalar", s, 1, <<>>, <<>>, "same", All(1)) : s \in Ranks}
        \cup {Program("broadcast", "vector", s, n, <<>>, <<>>, o, All(n)) :
                    s \in Ranks, n \in 0..MaxCount, o \in Mode}
        \cup {Program("broadcast", "array", s, ArraySize, <<>>, <<>>, "same", All(ArraySize)) :
                    s \in Ranks}
        \cup {Program("gather", "scalar", s, 1, <<>>, <<>>, "same", All(1)) : s \in Ranks}
        \cup {Program("gather", "vector", s, n, <<>>, <<>>, "same", All(n)) :
                    s \in Ranks, n \in 0..MaxCount}
        \cup {Program("allGather", "scalar", 0, 1, <<>>, <<>>, "same", All(1))}
        \cup {Program("allGather", "vector", 0, n, <<>>, <<>>, "same", All(n)) : n \in 0..MaxCount}
        \cup UNION {{Program("varyingScatter", "vector", s, 0, c, d, o, All(sum(c))) :
                        s \in Ranks, o \in Mode, d \in {<<>>, All(0), ReverseLayout(c)}} :
                    c \in Vary}
        \cup UNION {{Program("varyingGather", "vector", s, 0, c, d, o, c) :
                        s \in Ranks, o \in Mode, d \in {<<>>, ReverseLayout(c)}} :
                    c \in Vary}
        \cup UNION {{Program("varyingAllGather", "vector", 0, 0, c, d, "same", c) :
                        d \in {<<>>, ReverseLayout(c)}} :
                    c \in Vary}
        \cup {Program("scatter", "vector", s, n, <<>>, <<>>, o, All(n * NumProcs + spare)) :
                    s \in Ranks, n \in 0..MaxCount, o \in Mode, spare \in {0, 1}}

\* what rank p passes as its data (toSend, for scatter and varyingScatter)
Argument(p) ==
    IF p # prog.source /\ prog.others = "empty" /\ prog.op # "varyingGather" THEN <<>>
    ELSE MyData(p, prog.lengths[p + 1])

\* what rank p passes as receiveCounts to varyingGather
ReceiveCounts(p) ==
    IF p # prog.source /\ prog.others = "empty" THEN <<>> ELSE prog.counts

InitCollective ==
    /\ InitLibrary
    /\ prog \in Programs
    /\ InitProcesses

NextCollective ==
    \/ \E p \in Ranks : prog.kind = "scalar" /\ broadcastCall(p, prog.source, Argument(p))
    \/ \E p \in Ranks : prog.kind # "scalar"
                        /\ broadcastCollectionCall(p, prog.kind, prog.source, Argument(p))
    \/ \E p \in Ranks : broadcastSizeReturn(p)
    \/ \E p \in Ranks : scatterCall(p, prog.source, Argument(p), prog.count)
    \/ \E p \in Ranks : gatherCall(p, prog.kind, prog.source, Argument(p))
    \/ \E p \in Ranks : allGatherCall(p, prog.kind, Argument(p))
    \/ \E p \in Ranks : varyingScatterCall(p, prog.source, Argument(p), prog.counts,
                                             prog.displacements)
    \/ \E p \in Ranks : varyingGatherCall(p, prog.source, Argument(p), ReceiveCounts(p),
                                            prog.displacements)
    \/ \E p \in Ranks : varyingAllGatherCall(p, Argument(p), prog.counts, prog.displacements)
    \/ \E p \in Ranks : collectiveReturn(p)

SpecCollective == InitCollective /\ [][NextCollective]_vars

\* the arguments rank q passed to the collective method it called
Given(q) == IF ret[q].done THEN ret[q].args ELSE call[q].args

\* C13: when every rank calls broadcast(source, data), the value returned on a rank is
\* the data the source passed, whatever that rank passed; a rank other than the source
\* that passed an empty vector returns a vector of the source's size and contents.
C13_BroadcastReturnsSourceData ==
    \A p \in Ranks :
        Returned(p, "broadcast") =>
            LET source == ret[p].args.source
            IN  /\ ret[p].value = Given(source).data
                /\ Len(ret[p].value) = Len(Given(source).data)

\* a rank other than the source passed an empty vector and returned two elements
C13_Witness ==
    \E p \in Ranks :
        /\ Returned(p, "broadcast") /\ p # ret[p].args.source
        /\ ret[p].args.kind = "vector" /\ ret[p].args.data = <<>>
        /\ Len(ret[p].value) = 2

RankOrdered(v, k) ==
    /\ Len(v) = size(TheWorld) * k
    /\ \A i \in Ranks, j \in 1..k : v[i * k + j] = Given(i).data[j]

\* C16: gather(source, data) returns on the source a vector with one slot per rank
\* (size() elements, or size()*k elements for collections of k elements) that holds
\* the data of rank i at slot i, and an empty vector on every other rank; allGather
\* returns that rank-ordered vector on every rank.
C16_GatherRankOrdered ==
    \A p \in Ranks :
        /\ Returned(p, "gather") =>
                IF p = ret[p].args.source THEN RankOrdered(ret[p].value, Len(ret[p].args.data))
                ELSE ret[p].value = <<>>
        /\ Returned(p, "allGather") => RankOrdered(ret[p].value, Len(ret[p].args.data))

\* the source of a gather of collections of two elements has its 2*size() elements,
\* and another rank has returned its empty vector
C16_Witness ==
    \E p, q \in Ranks :
        /\ Returned(p, "gather") /\ p = ret[p].args.source /\ ret[p].args.kind = "vector"
        /\ Len(ret[p].value) = 2 * size(TheWorld)
        /\ Returned(q, "gather") /\ q # p /\ ret[q].value = <<>>

\* where the block of rank i starts: displacements[i], or the sum of the counts of the
\* ranks before i when no displacements are given
BlockStart(args, i) ==
    IF args.displacements = <<>> THEN sum(SubSeq(args.counts, 1, i))
    ELSE args.displacements[i + 1]

\* C17: varyingScatter(source, toSend, sendCounts, displacements): the rank i receives
\* exactly sendCounts[i] elements, the elements of the source's toSend that start at
\* displacements[i], or, when displacements is empty, at sendCounts[0] + ... +
\* sendCounts[i-1]; a rank whose count is 0 receives an empty vector.
C17_VaryingScatterBlocks ==
    \A i \in Ranks :
        Returned(i, "varyingScatter") =>
            LET args == ret[i].args
                toSend == Given(args.source).data
            IN  /\ Len(ret[i].value) = args.counts[i + 1]
                /\ \A j \in 1..args.counts[i + 1] :
                        ret[i].value[j] = toSend[BlockStart(args, i) + j]
                /\ args.counts[i + 1] = 0 => ret[i].value = <<>>

\* a rank has received two elements that start at a displacement that is not 0 and
\* is not the sequential one
C17_Witness ==
    \E i \in Ranks :
        /\ Returned(i, "varyingScatter") /\ Len(ret[i].value) = 2
        /\ ret[i].args.displacements # <<>>
        /\ ret[i].args.displacements[i + 1] > 0
        /\ ret[i].args.displacements[i + 1] # sum(SubSeq(ret[i].args.counts, 1, i))

\* the vector of sum(receiveCounts) elements that holds the elements of every rank i
\* from the start of its block on
Gathered(v, args) ==
    /\ Len(v) = sum(args.counts)
    /\ \A i \in Ranks : \A j \in 1..args.counts[i + 1] :
            v[BlockStart(args, i) + j] = Given(i).data[j]

\* C18: varyingGather(source, data, receiveCounts, displacements) returns on the source a
\* vector of sum(receiveCounts) elements in which the receiveCounts[i] elements of rank i
\* start at displacements[i] (one rank after the other when displacements is empty), and
\* an empty vector on every other rank, whatever receiveCounts that rank passed;
\* varyingAllGather returns that vector on every rank.
C18_VaryingGatherBlocks ==
    \A p \in Ranks :
        /\ Returned(p, "varyingGather") =>
                IF p = ret[p].args.source THEN Gathered(ret[p].value, ret[p].args)
                ELSE ret[p].value = <<>>
        /\ Returned(p, "varyingAllGather") => Gathered(ret[p].value, ret[p].args)

\* the source has gathered blocks of two elements placed in reverse rank order, and
\* a rank that passed other receiveCounts has returned its empty vector
C18_Witness ==
    \E p, q \in Ranks :
        /\ Returned(p, "varyingGather") /\ p = ret[p].args.source
        /\ ret[p].args.displacements # <<>> /\ ret[p].args.displacements[1] > 0
        /\ \A i \in Ranks : ret[p].args.counts[i + 1] = 2
        /\ Returned(q, "varyingGather") /\ q # p
        /\ ret[q].args.counts # ret[p].args.counts /\ ret[q].value = <<>>


\* ---------------------------------------------------------------------------------------
\* Non-blocking point-to-point: asyncSend, asyncReceive and the request objects
\* ---------------------------------------------------------------------------------------

\* the null request: what MPI_Test and MPI_Wait leave in a request they completed
MPI_REQUEST_NULL == 0

\* whether a native call gives control back to its caller, given the operation it started:
\* MPI_Isend and MPI_Irecv start the operation and return; MPI_Send returns once the message
\* is buffered or delivered, MPI_Recv once a message was received
NativeReturnsBad(fn, operation) ==
    IF fn \in {"MPI_Send", "MPI_Isend"} THEN operation.buffered \/ operation.delivered
    ELSE operation.done
NativeReturns(fn, operation) ==
    CASE fn \in {"MPI_Isend", "MPI_Irecv"} -> TRUE
      [] fn = "MPI_Send" -> operation.buffered \/ operation.delivered
      [] fn = "MPI_Recv" -> operation.done

\* SendRequest / ReceiveRequest<Type>: value is the native request, buffer the operation
\* whose memory the request refers to, n the number of elements of the receive buffer;
\* flag is the result of the last isCompleted(), polledTrue tells that some isCompleted()
\* returned true, known that wait() returned or isCompleted() returned true;
\* taken/data/knownAtTake record the call of take(); object counts the request objects
\* the request went through by move construction, destroyed tells that the last is gone
Request(kind, request, n) ==
    [kind |-> kind, value |-> request, buffer |-> request, n |-> n,
     object |-> 1, destroyed |-> FALSE,
     flag |-> "none", polledTrue |-> FALSE, waited |-> FALSE, known |-> FALSE,
     taken |-> FALSE, data |-> <<>>, knownAtTake |-> FALSE]

\* the native operation behind a request is complete: a send when its buffer may be
\* reused (the message is buffered or delivered), a receive when the message arrived
Complete(r) ==
    IF r.kind = "send" THEN sends[r.buffer].buffered \/ sends[r.buffer].delivered
    ELSE recvs[r.buffer].done

\* the error code the completed operation reports
CompletionCode(r) == IF r.kind = "send" THEN MPI_SUCCESS ELSE recvs[r.buffer].code

\* MPI_Test(&value, &flag, MPI_STATUS_IGNORE): a null request tests true; a complete
\* operation tests true and its request becomes null; otherwise flag stays 0
MPI_Test(r) ==
    IF r.value = MPI_REQUEST_NULL THEN [flag |-> 1, value |-> MPI_REQUEST_NULL, code |-> MPI_SUCCESS]
    ELSE IF Complete(r) THEN [flag |-> 1, value |-> MPI_REQUEST_NULL, code |-> CompletionCode(r)]
    ELSE [flag |-> 0, value |-> r.value, code |-> MPI_SUCCESS]

\* rank p holds a request object
HoldsRequest(p) ==
    /\ ret[p].done
    /\ ret[p].args.op \in {"asyncSend", "asyncReceive"}
    /\ ~ret[p].value.destroyed

\* asyncSend(data, destination, tag): MPI_Isend(&data, sizeof(Type), ...) on the by-value
\* parameter, or MPI_Isend(data.data(), sizeof(Type) * data.size(), ...) on the caller's
\* collection; returns SendRequest(x). The parameter of the scalar overload ends with the
\* call (alive is false from the return on): unless the native library copied the message
\* at once, it reads a dead object (dangling).
asyncSend(p, scalar, data, destination, tag, buffered) ==
    /\ call[p] = Idle /\ ~ret[p].done
    /\ scalar => Len(data) = 1
    /\ LET started == [src |-> p, dst |-> destination, tag |-> tag,
                       bytes |-> SubSeq(Bytes(data), 1, ByteCount(Len(data))),
                       buffered |-> buffered, delivered |-> FALSE,
                       alive |-> ~scalar, dangling |-> scalar /\ ~buffered]
       IN  /\ NativeReturns("MPI_Isend", started)
           /\ sends' = Append(sends, started)
    /\ ret' = [ret EXCEPT ![p] = [done |-> TRUE,
                  args |-> [op |-> "asyncSend", scalar |-> scalar, data |-> data,
                            destination |-> destination, tag |-> tag],
                  exc |-> handleError(MPI_SUCCESS),
                  value |-> Request("send", Len(sends) + 1, 0)]]
    /\ UNCHANGED <<prog, call, contrib, recvs>>
    /\ UNCHANGED handleVars

\* asyncReceive<Type>(source, tag): ReceiveRequest<Type> r(1); MPI_Irecv(r.data.data(),
\* sizeof(Type), ...); asyncReceive<Type>(count, source, tag): r(count), sizeof(Type) * count
asyncReceive(p, kind, count, source, tag) ==
    /\ call[p] = Idle /\ ~ret[p].done
    /\ kind = "scalar" => count = 1
    /\ LET started == [at |-> p, src |-> source, tag |-> tag,
                       capacity |-> ByteCount(count),
                       buf |-> Bytes(initializeWithCount("vector", count)),
                       done |-> FALSE, from |-> 0, code |-> MPI_SUCCESS,
                       owner |-> "request", wild |-> FALSE]
       IN  /\ NativeReturns("MPI_Irecv", started)
           /\ recvs' = Append(recvs, started)
    /\ ret' = [ret EXCEPT ![p] = [done |-> TRUE,
                  args |-> [op |-> "asyncReceive", kind |-> kind, count |-> count,
                            source |-> source, tag |-> tag, request |-> Len(recvs) + 1],
                  exc |-> handleError(MPI_SUCCESS),
                  value |-> Request("recv", Len(recvs) + 1, count)]]
    /\ UNCHANGED <<prog, call, contrib, sends>>
    /\ UNCHANGED handleVars

\* isCompleted(): int flag = 0; handleError(MPI_Test(&value, &flag, ...)); return flag != 0
isCompleted(p) ==
    /\ HoldsRequest(p)
    /\ LET r == ret[p].value
           t == MPI_Test(r)
           exc == handleError(t.code)
       IN  ret' = [ret EXCEPT ![p] = [@ EXCEPT
                      !.exc = exc,
                      !.value = [r EXCEPT
                          !.value = t.value,
                          !.flag = IF exc.thrown THEN r.flag
                                   ELSE IF t.flag # 0 THEN "true" ELSE "false",
                          !.polledTrue = r.polledTrue \/ (~exc.thrown /\ t.flag # 0),
                          !.known = r.known \/ (~exc.thrown /\ t.flag # 0)]]]
    /\ UNCHANGED <<prog, call, contrib, sends, recvs>>
    /\ UNCHANGED handleVars

\* wait(): handleError(MPI_Wait(&value, MPI_STATUS_IGNORE)); MPI_Wait gives control back
\* when the request is null or its operation complete, and leaves the request null
wait(p) ==
    /\ HoldsRequest(p)
    /\ LET r == ret[p].value
       IN  /\ r.value = MPI_REQUEST_NULL \/ Complete(r)
           /\ LET exc == handleError(IF r.value = MPI_REQUEST_NULL THEN MPI_SUCCESS
                                     ELSE CompletionCode(r))
              IN  ret' = [ret EXCEPT ![p] = [@ EXCEPT
                             !.exc = exc,
                             !.value = [r EXCEPT !.value = MPI_REQUEST_NULL,
                                                 !.waited = r.waited \/ ~exc.thrown,
                                                 !.known = r.known \/ ~exc.thrown]]]
    /\ UNCHANGED <<prog, call, contrib, sends, recvs>>
    /\ UNCHANGED handleVars

\* take(): return std::move(data): the caller gets the buffer of the request, whether
\* or not the receive is complete; data is what the buffer holds at that time
take(p) ==
    /\ HoldsRequest(p)
    /\ LET r == ret[p].value
       IN  /\ r.kind = "recv" /\ ~r.taken
           /\ ret' = [ret EXCEPT ![p] = [@ EXCEPT
                         !.value = [r EXCEPT !.taken = TRUE,
                                             !.data = Objects(recvs[r.buffer].buf, r.n),
                                             !.knownAtTake = r.known]]]
           /\ recvs' = [recvs EXCEPT ![r.buffer].owner = "caller"]
    /\ UNCHANGED <<prog, call, contrib, sends>>
    /\ UNCHANGED handleVars

\* ReceiveRequest(ReceiveRequest&&) = default: the new object takes the native request
\* and the buffer of the old one, which lives on the heap and stays where it is
moveRequest(p) ==
    /\ HoldsRequest(p)
    /\ ret[p].value.kind = "recv"
    /\ ret[p].value.object <= MaxMoves
    /\ ret' = [ret EXCEPT ![p] = [@ EXCEPT !.value = [@ EXCEPT !.object = @ + 1]]]
    /\ UNCHANGED <<prog, call, contrib, sends, recvs>>
    /\ UNCHANGED handleVars

\* ~ReceiveRequest() = default: the buffer the request still holds is freed; the native
\* request is neither waited for nor cancelled
destroyRequest(p) ==
    /\ HoldsRequest(p)
    /\ LET r == ret[p].value
       IN  /\ r.kind = "recv"
           /\ ret' = [ret EXCEPT ![p] = [@ EXCEPT !.value = [r EXCEPT !.destroyed = TRUE]]]
           /\ recvs' = IF r.taken THEN recvs
                        ELSE [recvs EXCEPT ![r.buffer].owner = "freed"]
    /\ UNCHANGED <<prog, call, contrib, sends>>
    /\ UNCHANGED handleVars

\* a run: the first and the last rank of the world, one sending to the other
InitAsync ==
    /\ InitLibrary
    /\ prog \in {[op |-> "pair", s |-> s, d |-> d] : s, d \in {0, NumProcs - 1}}
    /\ prog.s # prog.d
    /\ InitProcesses

NextAsync ==
    \/ \E scalar, buffered \in BOOLEAN, n \in 0..MaxCount, tag \in SendTags :
            asyncSend(prog.s, scalar, MyData(prog.s, n), prog.d, tag, buffered)
    \/ \E kind \in {"scalar", "vector"}, count \in 0..MaxCount,
          tag \in SendTags \cup {MPI_ANY_TAG} :
            asyncReceive(prog.d, kind, count, prog.s, tag)
    \/ \E p \in Ranks : isCompleted(p)
    \/ \E p \in Ranks : wait(p)
    \/ \E p \in Ranks : take(p)
    \/ \E p \in Ranks : moveRequest(p)
    \/ \E p \in Ranks : destroyRequest(p)
    \/ \E i \in 1..Len(sends), j \in 1..Len(recvs) : Deliver(i, j)

SpecAsync == InitAsync /\ [][NextAsync]_vars


\* C19: after rank s called asyncSend(data, d, tag) and rank d called asyncReceive from s
\* with a matching tag, wait() returns only after the operation has completed,
\* isCompleted() returns true only once it has completed and stays true on later calls,
\* and take() on the ReceiveRequest, called after wait() returned or isCompleted()
\* returned true, yields data equal to what was sent.
C19_RequestsCompleteWithSentData ==
    \A p \in Ranks :
        HoldsRequest(p) =>
            LET r == ret[p].value
            IN  /\ r.waited => Complete(r)
                /\ r.flag = "true" => Complete(r)
                /\ r.polledTrue => r.flag = "true"
                /\ (r.kind = "recv" /\ r.taken /\ r.knownAtTake) =>
                      LET got == ret[p].args
                          s == sends[recvs[r.buffer].from].src
                      IN  (/\ s # p /\ got.source = s /\ HoldsRequest(s)
                           /\ ret[s].args.destination = p
                           /\ got.tag \in {ret[s].args.tag, MPI_ANY_TAG}
                           /\ IF got.kind = "scalar" THEN ret[s].args.scalar
                              ELSE ~ret[s].args.scalar /\ Len(ret[s].args.data) = got.count) =>
                              r.data = ret[s].args.data

C21_SelfAssignmentSafe ==
    [][(/\ last'.op = "CopyAssign" /\ last'.dst = last'.src
        /\ HasImpl(last'.dstWas) /\ ~last'.exc.thrown) =>
          LET old == last'.dstWas.comm
              new == get(handles'[last'.dst])
          IN  /\ handles'[last'.dst].alive
              /\ handles'[last'.dst].impl.kind = "owned"
              /\ new # old
              /\ comms'[new].state = "live"
              /\ comms'[new].group = comms[old].group
              /\ last'.dups = 1
              /\ freeCalls'[new] = 0
              /\ last'.dstWas.kind = "owned" =>
                    /\ last'.freed = <<old>>
                    /\ freeCalls'[old] = 1
                    /\ terminated' = "no" => comms'[old].state = "freed"
              /\ last'.dstWas.kind = "proxy" =>
                    /\ last'.freed = <<>>
                    /\ comms'[old] = comms[old]
              /\ \A c \in CommIds : freeCalls'[c] <= 1]_vars

\* an owning handle was assigned to itself: it owns a new live communicator and the one
\* it owned is freed
C21_Witness ==
    /\ Succeeded("CopyAssign")
    /\ last.dst = last.src
    /\ last.dstWas.kind = "owned"
    /\ terminated = "no"
    /\ comms[last.dstWas.comm].state = "freed"
    /\ IsLive(DstComm)


\* ============================================================================
\* The displacement helpers of Communicator, applied to any vector of counts
\* ============================================================================
CountValues == {0 - 1, 0, 1, MaxCount}

\* the vectors of counts a rank can pass: none to one count per rank
CountVectors == UNION {[1..n -> CountValues] : n \in 0..NumProcs}

\* a rank calls createDefaultDisplacements(sendCounts)
createDefaultDisplacementsCall(p) ==
    /\ prog.op = "createDefaultDisplacements"
    /\ call[p] = Idle /\ ~ret[p].done
    /\ ret' = [ret EXCEPT ![p] = [done |-> TRUE, args |-> prog, exc |-> NoException,
                                  value |-> createDefaultDisplacements(prog.sendCounts)]]
    /\ UNCHANGED <<prog, call, contrib, sends, recvs>>
    /\ UNCHANGED handleVars

InitDisplacements ==
    /\ InitLibrary
    /\ prog \in {[op |-> "createDefaultDisplacements", sendCounts |-> c] : c \in CountVectors}
    /\ InitProcesses

NextDisplacements == \E p \in Ranks : createDefaultDisplacementsCall(p)

SpecDisplacements == InitDisplacements /\ [][NextDisplacements]_vars

\* C22: createDefaultDisplacements(counts) returns a vector d as long as counts with
\* d[0] = 0 and d[i] = counts[0] + ... + counts[i-1]; when no count is negative the
\* ranges [d[i], d[i] + counts[i]) follow each other without a gap, in rank order, and
\* no two of them overlap; for an empty counts the result is empty.
C22_DefaultDisplacements ==
    \A p \in Ranks :
        Returned(p, "createDefaultDisplacements") =>
            LET counts == ret[p].args.sendCounts
                d == ret[p].value
                n == Len(counts)
            IN  /\ Len(d) = n
                /\ n = 0 => d = <<>>
                /\ n > 0 => d[1] = 0
                /\ \A i \in 1..n : d[i] = sum(SubSeq(counts, 1, i - 1))
                /\ (\A i \in 1..n : counts[i] >= 0) =>
                      /\ \A i \in 1..(n - 1) : d[i] + counts[i] = d[i + 1]
                      /\ \A i \in 1..n : \A j \in (i + 1)..n :
                            \A x \in d[i]..(d[i] + counts[i] - 1) :
                                x \notin d[j]..(d[j] + counts[j] - 1)

\* the displacements of three blocks, the middle one empty and the others not
C22_Witness ==
    \E p \in Ranks :
        /\ Returned(p, "createDefaultDisplacements")
        /\ ret[p].args.sendCounts = <<MaxCount, 0, 1>>
        /\ ret[p].value = <<0, MaxCount, MaxCount>>


\* ============================================================================
\* Further claims on the request objects (specification SpecAsync)
\* ============================================================================

\* C23: the buffer whose address asyncSend gave to the native non-blocking send exists
\* as long as the SendRequest has not reported completion (wait() has not returned and
\* no isCompleted() has returned true), for the scalar and for the collection overload.
C23_SendBufferOutlivesRequest ==
    \A p \in Ranks :
        (HoldsRequest(p) /\ ret[p].args.op = "asyncSend" /\ ~ret[p].value.known) =>
            sends[ret[p].value.buffer].alive


\* C24: the buffer asyncReceive registered with the native receive is the buffer of the
\* ReceiveRequest also after the request was moved, and as long as the native receive is
\* in flight it is held by the request: neither the destruction of the request nor take()
\* has freed it or given it to the caller.
C24_ReceiveBufferHeldWhileInFlight ==
    /\ \A p \in Ranks :
          (HoldsRequest(p) /\ ret[p].value.kind = "recv") =>
              ret[p].value.buffer = ret[p].args.request
    /\ \A j \in 1..Len(recvs) :
          ~recvs[j].done => recvs[j].owner \in {"request", "call"}


\* the native communicators the library created: every entry of the table in use except
\* the two predefined ones
LibraryCreated == {c \in CommIds \ {MPI_COMM_WORLD, MPI_COMM_SELF} : comms[c].state # "unalloc"}

\* the objects (client handles and thread_local proxies) that refer to communicator c
Referring(c) == {r \in Refs : Obj(r).alive /\ HasImpl(Obj(r).impl) /\ get(Obj(r)) = c}

\* C25: a native communicator the library created, by duplication in an owning handle or
\* by split, has got exactly one native free once no Communicator or handle refers to it,
\* after any sequence of construct, copy, move, assign, split and destroy.
C25_NoLeak ==
    \A c \in LibraryCreated : Referring(c) = {} => freeCalls[c] = 1


\* C26: in every reachable state every handle, also one that was the source of a move
\* construction or move assignment, holds an implementation, so that get() returns a
\* native communicator (a live one if the handle owns it) and a copy from the handle
\* succeeds or throws NiceMPIexception: no operation dereferences an empty
\* implementation pointer.
C26_HandleAlwaysHoldsImplementation ==
    /\ terminated \notin NullDereference
    /\ \A h \in HandleIds :
          handles[h].alive =>
              /\ HasImpl(handles[h].impl)
              /\ handles[h].impl.kind = "owned" => IsLive(get(handles[h]))


\* the parts of C27 that do not depend on what a proxy aliases: no communicator got more
\* than one native free; the predefined communicators got none; a native free is only
\* ever issued by the operation that deletes an owning implementation, on the communicator
\* that implementation had duplicated
FreesOnlyOwnDuplicates ==
    /\ \A c \in CommIds : freeCalls[c] <= 1
    /\ freeCalls[MPI_COMM_WORLD] = 0 /\ freeCalls[MPI_COMM_SELF] = 0
    /\ \A c \in CommIds : freeCalls[c] > 0 => c \in LibraryCreated
    /\ last.freed # <<>> =>
          /\ last.dstWas.kind = "owned"
          /\ last.freed = <<last.dstWas.comm>>
    /\ last.op \in {"ConstructOwned", "ConstructProxy", "createProxy", "CopyConstruct",
                    "MoveConstruct"} => last.freed = <<>>

\* C27 as stated: over any sequence of construct, copy, move, copy-assign, move-assign and
\* destroy no communicator is freed more than once, no live handle's get() returns an
\* already freed communicator, and a communicator the library did not create is never
\* freed by the library.
C27_NoDoubleFreeAsStated ==
    /\ FreesOnlyOwnDuplicates
    /\ \A r \in Refs :
          (Obj(r).alive /\ HasImpl(Obj(r).impl) /\ get(Obj(r)) \in CommIds) =>
              comms[get(Obj(r))].state # "freed"

\* C27 amended: the same, where the second part is about the handles that own their
\* communicator: no live owning handle's get() returns an already freed communicator (a
\* proxy returns the communicator it was built from, also after the owner of that
\* communicator was destroyed).
C27_NoDoubleFreeNoForeignFree ==
    /\ FreesOnlyOwnDuplicates
    /\ \A r \in Refs :
          (Obj(r).alive /\ Obj(r).impl.kind = "owned") =>
              /\ comms[get(Obj(r))].state # "freed"
              /\ freeCalls[get(Obj(r))] = 0

\* a handle that owned a duplicate was assigned a copy of a proxy of MPI_COMM_WORLD: its
\* old communicator is freed, by one native free, and the new one and MPI_COMM_WORLD are not
C27_Witness ==
    /\ Succeeded("CopyAssign")
    /\ last.dstWas.kind = "owned"
    /\ last.srcWas = ProxyCommunicator(MPI_COMM_WORLD)
    /\ terminated = "no"
    /\ comms[last.dstWas.comm].state = "freed"
    /\ freeCalls[last.dstWas.comm] = 1
    /\ IsLive(DstComm)



\* ------------------------------------------------ explicit displacements
\* The varying collectives called with displacements of the caller's choice. The asserts
\* of varyingScatter look at the counts only, varyingGather and varyingAllGather have no
\* assert, and the displacements go to the native call as they are (scaled): here the
\* layouts are the blocks in reverse rank order and the sequential layout moved up by one
\* element, which ends one element after the data.
Shifted(counts) == [i \in 1..Len(counts) |-> createDefaultDisplacements(counts)[i] + 1]

ExplicitPrograms ==
    LET All(n) == [i \in 1..NumProcs |-> n]
        Vary == [1..NumProcs -> Counts]
        Mode == {"same", "empty"}
    IN  UNION {{Program("varyingScatter", "vector", s, 0, c, d, o, All(sum(c))) :
                    s \in Ranks, o \in Mode, d \in {ReverseLayout(c), Shifted(c)}} :
               c \in Vary}
        \cup UNION {{Program("varyingGather", "vector", s, 0, c, d, o, c) :
                        s \in Ranks, o \in Mode, d \in {ReverseLayout(c), Shifted(c)}} :
                    c \in Vary}
        \cup UNION {{Program("varyingAllGather", "vector", 0, 0, c, d, "same", c) :
                        d \in {ReverseLayout(c), Shifted(c)}} :
                    c \in Vary}

\* the blocks of counts[i] bytes at displs[i] that are not empty lie inside the buffer
RangesInside(counts, displs, buf) ==
    \A i \in 1..Len(counts) :
        counts[i] > 0 => displs[i] >= 0 /\ displs[i] + counts[i] <= Len(buf)

\* the native call entry of rank p touches its buffers inside their bounds: MPI_Scatterv
\* reads the blocks from the root's send buffer, MPI_Gatherv stores them in the root's
\* receive buffer and MPI_Allgatherv in every rank's
AccessInBounds(p, entry) ==
    CASE entry.fn = "MPI_Scatterv" ->
            p = entry.root => RangesInside(entry.counts, entry.displs, entry.sendbuf)
      [] entry.fn = "MPI_Gatherv" ->
            p = entry.root => RangesInside(entry.counts, entry.displs, entry.recvbuf)
      [] entry.fn = "MPI_Allgatherv" ->
            RangesInside(entry.counts, entry.displs, entry.recvbuf)
      [] OTHER -> TRUE

AllInBounds == \A q \in Ranks : AccessInBounds(q, contrib[q][Len(contrib[q])])

\* what a native call that leaves its buffers can do to the caller
OutOfBoundsAccess == {"crash", "garbage"}

\* the native call returns on rank p after it stayed inside the buffers
inBoundsReturn(p) ==
    /\ call[p].op # "none" /\ AllEntered(get(TheWorld), 1)
    /\ AllInBounds
    /\ collectiveReturn(p)

\* the native call left a buffer: the behaviour of rank p is undefined
outOfBoundsReturn(p) ==
    /\ call[p].op # "none" /\ call[p].stage = "result"
    /\ AllEntered(get(TheWorld), 1)
    /\ ~AllInBounds
    /\ \E outcome \in OutOfBoundsAccess :
          ret' = [ret EXCEPT ![p] = [done |-> TRUE, args |-> call[p].args,
                                     exc |-> handleError(MPI_SUCCESS), value |-> outcome]]
    /\ call' = [call EXCEPT ![p] = Idle]
    /\ UNCHANGED <<prog, contrib, sends, recvs>>
    /\ UNCHANGED handleVars

InitExplicit ==
    /\ InitLibrary
    /\ prog \in ExplicitPrograms
    /\ InitProcesses

NextExplicit ==
    \/ \E p \in Ranks : varyingScatterCall(p, prog.source, Argument(p), prog.counts,
                                             prog.displacements)
    \/ \E p \in Ranks : varyingGatherCall(p, prog.source, Argument(p), ReceiveCounts(p),
                                            prog.displacements)
    \/ \E p \in Ranks : varyingAllGatherCall(p, Argument(p), prog.counts, prog.displacements)
    \/ \E p \in Ranks : inBoundsReturn(p)
    \/ \E p \in Ranks : outOfBoundsReturn(p)

SpecExplicit == InitExplicit /\ [][NextExplicit]_vars

\* C28: whenever the asserts of the library pass, explicit displacements keep every access
\* in bounds: the native call a rank has issued from varyingScatter reads every block
\* [displacements[r], displacements[r] + sendCounts[r]) inside the source's toSend, and the
\* one issued from varyingGather or varyingAllGather stores every block
\* [displacements[i], displacements[i] + receiveCounts[i]) inside the result vector of
\* sum(receiveCounts) elements.
C28_ExplicitDisplacementsInBounds ==
    \A p \in Ranks :
        contrib[p] # <<>> => AccessInBounds(p, contrib[p][Len(contrib[p])])



\* C29: a failed duplication leaves the state unchanged. When the native duplication made
\* by a copy construction or a copy assignment creates no communicator, the operation
\* ends with a NiceMPIexception that carries the native code, the target holds what it
\* held before (a target under construction does not come to exist), the source is
\* unchanged, no communicator changes state and no native free is issued.
C29_FailedDuplicationUnchanged ==
    [][ ( /\ last'.op \in {"CopyConstruct", "CopyAssign"}
          /\ last.op = "none"
          /\ HasImpl(last'.srcWas)
          /\ \A c \in CommIds : comms[c].state = "unalloc" => comms'[c].state = "unalloc" )
        => /\ last'.exc = NiceMPIexception(NativeErrorCode)
           /\ last'.dups = 1
           /\ handles' = handles
           /\ handles[last'.dst].impl = last'.dstWas
           /\ Obj(last'.src).impl = last'.srcWas
           /\ tls' = tls
           /\ comms' = comms
           /\ freeCalls' = freeCalls
           /\ last'.freed = <<>>
           /\ terminated' = terminated ]_vars

\* a copy assignment to a handle that owns a duplicate, from another handle that owns one,
\* failed in the duplication: both still hold their live communicators, never freed
C29_Witness ==
    /\ last.op = "CopyAssign" /\ last.exc.thrown
    /\ last.dst # last.src
    /\ last.dstWas.kind = "owned" /\ last.srcWas.kind = "owned"
    /\ handles[last.dst].impl = last.dstWas
    /\ IsLive(last.dstWas.comm) /\ freeCalls[last.dstWas.comm] = 0
    /\ IsLive(last.srcWas.comm) /\ freeCalls[last.srcWas.comm] = 0



\* ------------------------------- the Communicator of the single header
\* src/include/NiceMPI.h keeps the MPI_Comm in the Communicator itself. An object of this
\* class is a live entry of handles whose implementation is the communicator it holds.
Holding(c) == Alive([kind |-> "value", comm |-> c])

\* the objects a Communicator can be copied, moved or assigned from: the client's own and
\* the never destructed Communicator of mpiWorld()
Sources == HandleIds \cup {WorldRef}

\* the client's objects and the thread_local ones after object r was given the communicator of to
Store(objects, locals, r, to) ==
    [handles |-> IF r \in HandleIds THEN [objects EXCEPT ![r] = to] ELSE objects,
     tls |-> IF r = WorldRef THEN [locals EXCEPT !.world = to] ELSE locals]

\* mpiWorld(): thread_local Communicator* neverDestructedWorld =
\* new Communicator{MPI_Comm{MPI_COMM_WORLD}}, built by the first call with the private
\* constructor, which stores the communicator
CommunicatorWorld ==
    /\ Running
    /\ tls' = IF tls.world.alive THEN tls ELSE [tls EXCEPT !.world = Holding(MPI_COMM_WORLD)]
    /\ last' = [Called("mpiWorld", WorldRef, 0) EXCEPT !.arg = MPI_COMM_WORLD]
    /\ UNCHANGED <<comms, freeCalls, handles, terminated, guard, nativeLog, errIn, thrown>>
    /\ UNCHANGED procVars

\* Communicator(): handleError(MPI_Comm_dup(MPI_COMM_WORLD, &mpiCommunicator))
CommunicatorDefault(h) ==
    /\ Running
    /\ NewObject(h)
    /\ \E d \in MPI_Comm_dup(MPI_COMM_WORLD) :
        /\ handles' = IF d.err # MPI_SUCCESS THEN handles
                      ELSE [handles EXCEPT ![h] = Holding(d.out)]
        /\ comms' = CommsAfterDup(comms, MPI_COMM_WORLD, d)
        /\ last' = [Called("Communicator()", h, 0) EXCEPT
                        !.exc = handleError(d.err), !.dups = 1, !.arg = MPI_COMM_WORLD]
    /\ UNCHANGED <<freeCalls, tls, terminated, guard, nativeLog, errIn, thrown>>
    /\ UNCHANGED procVars

\* Communicator(const Communicator& rhs):
\* handleError(MPI_Comm_dup(rhs.mpiCommunicator, &mpiCommunicator))
CommunicatorCopy(h, s) ==
    /\ Running
    /\ NewObject(h)
    /\ Obj(s).alive
    /\ \E d \in MPI_Comm_dup(get(Obj(s))) :
        /\ handles' = IF d.err # MPI_SUCCESS THEN handles
                      ELSE [handles EXCEPT ![h] = Holding(d.out)]
        /\ comms' = CommsAfterDup(comms, get(Obj(s)), d)
        /\ last' = [Called("Communicator(const Communicator&)", h, s) EXCEPT
                        !.exc = handleError(d.err), !.dups = 1]
    /\ UNCHANGED <<freeCalls, tls, terminated, guard, nativeLog, errIn, thrown>>
    /\ UNCHANGED procVars

\* Communicator(Communicator&& rhs): Communicator()
\* { std::swap(mpiCommunicator, rhs.mpiCommunicator); }
CommunicatorMove(h, s) ==
    /\ Running
    /\ NewObject(h)
    /\ Obj(s).alive
    /\ \E d \in MPI_Comm_dup(MPI_COMM_WORLD) :
        /\ IF d.err # MPI_SUCCESS THEN UNCHANGED <<handles, tls>>
           ELSE LET swapped == Store([handles EXCEPT ![h] = Obj(s)], tls, s, Holding(d.out))
                IN  handles' = swapped.handles /\ tls' = swapped.tls
        /\ comms' = CommsAfterDup(comms, MPI_COMM_WORLD, d)
        /\ last' = [Called("Communicator(Communicator&&)", h, s) EXCEPT
                        !.exc = handleError(d.err), !.dups = 1]
    /\ UNCHANGED <<freeCalls, terminated, guard, nativeLog, errIn, thrown>>
    /\ UNCHANGED procVars

\* ~Communicator(): handleError(MPI_Comm_free(&mpiCommunicator)); an exception that
\* leaves a destructor terminates the program
CommunicatorDestructor(h) ==
    /\ Running
    /\ handles[h].alive
    /\ \E e \in MPI_Comm_free(get(handles[h])) :
        /\ comms' = CommsAfterFree(comms, get(handles[h]), e)
        /\ terminated' = IF handleError(e).thrown THEN "terminate" ELSE "no"
        /\ last' = [Called("~Communicator()", h, 0) EXCEPT
                        !.exc = handleError(e), !.freed = <<get(handles[h])>>]
    /\ freeCalls' = FreeCallsAfter(freeCalls, <<get(handles[h])>>)
    /\ handles' = [handles EXCEPT ![h] = Dead]
    /\ UNCHANGED <<tls, guard, nativeLog, errIn, thrown>>
    /\ UNCHANGED procVars

\* operator=(const Communicator& rhs):
\* if(this != &rhs) handleError(MPI_Comm_dup(rhs.mpiCommunicator, &mpiCommunicator));
\* the duplicate is stored over the communicator the target held
CommunicatorCopyAssign(x, s) ==
    /\ Running
    /\ Obj(x).alive /\ Obj(s).alive
    /\ IF x = s
       THEN /\ last' = Called("operator=(const Communicator&)", x, s)
            /\ UNCHANGED <<handles, tls, comms>>
       ELSE \E d \in MPI_Comm_dup(get(Obj(s))) :
            /\ IF d.err # MPI_SUCCESS THEN UNCHANGED <<handles, tls>>
               ELSE LET assigned == Store(handles, tls, x, Holding(d.out))
                    IN  handles' = assigned.handles /\ tls' = assigned.tls
            /\ comms' = CommsAfterDup(comms, get(Obj(s)), d)
            /\ last' = [Called("operator=(const Communicator&)", x, s) EXCEPT
                            !.exc = handleError(d.err), !.dups = 1]
    /\ UNCHANGED <<freeCalls, terminated, guard, nativeLog, errIn, thrown>>
    /\ UNCHANGED procVars

\* operator=(Communicator&& rhs): std::swap(mpiCommunicator, rhs.mpiCommunicator)
CommunicatorMoveAssign(x, s) ==
    /\ Running
    /\ Obj(x).alive /\ Obj(s).alive
    /\ LET first == Store(handles, tls, x, Obj(s))
           swapped == Store(first.handles, first.tls, s, Obj(x))
       IN  handles' = swapped.handles /\ tls' = swapped.tls
    /\ last' = Called("operator=(Communicator&&)", x, s)
    /\ UNCHANGED <<comms, freeCalls, terminated, guard, nativeLog, errIn, thrown>>
    /\ UNCHANGED procVars

NextSingleHeader ==
    \/ CommunicatorWorld
    \/ \E h \in HandleIds : CommunicatorDefault(h)
    \/ \E h \in HandleIds, s \in Sources : CommunicatorCopy(h, s)
    \/ \E h \in HandleIds, s \in Sources : CommunicatorMove(h, s)
    \/ \E h \in HandleIds : CommunicatorDestructor(h)
    \/ \E x, s \in Sources : CommunicatorCopyAssign(x, s)
    \/ \E x, s \in Sources : CommunicatorMoveAssign(x, s)
    \/ Return

SpecSingleHeader == Init /\ [][NextSingleHeader]_vars

\* C30: in the single-header Communicator every communicator obtained by native
\* duplication is released by exactly one native free: none gets a second free, one that
\* is still live is held by an object, whose destructor is to free it, and a copy
\* assignment between two objects has freed the duplicate the target held.
C30_SingleHeaderFreesExactlyOnce ==
    /\ \A c \in CommIds \ {MPI_COMM_WORLD, MPI_COMM_SELF} :
          /\ freeCalls[c] <= 1
          /\ (terminated = "no" /\ comms[c].state = "live") =>
                \E r \in Sources : Obj(r) = Holding(c)
    /\ ( /\ last.op = "operator=(const Communicator&)"
         /\ last.dst # last.src
         /\ last.dstWas.comm \notin {MPI_COMM_WORLD, MPI_COMM_SELF}
         /\ ~last.exc.thrown )
       => last.freed = <<last.dstWas.comm>>

====
